---- MODULE Spec2Model ----
(***************************************************************************)
(* Receipt-text interpretation pipeline of the expense tracker backend:    *)
(* backend/parsers.py (amount normaliser, text cleaner, categoriser and    *)
(* the four format parsers) and backend/ocr_processor.py (source           *)
(* identifier, orchestrator, FX lookup).                                   *)
(*                                                                         *)
(* Python str values are TLA+ strings, handled character by character      *)
(* with Len, SubSeq and \o.  The euro glyph U+20AC is written "@" and the  *)
(* default person is written "Kozos", so that the module stays ASCII.  A    *)
(* Python float is the exact decimal [m, e] = m / 10^e, normalised; None   *)
(* is the record NONE (floats) or the string NoneStr.                      *)
(***************************************************************************)
EXTENDS Integers, Sequences, FiniteSets, TLC

VARIABLES
    pc,             \* position of the running call
    image,          \* the text the OCR engine recognises in the image
    text,           \* process_image: text
    source,         \* process_image: source
    parsed_data,    \* process_image: parsed_data
    final_results,  \* process_image: final_results
    idx,            \* process_image: index of the next item of the for loop
    returned,       \* value returned to the caller of process_image
    caught,         \* exception caught by process_image, "" when none
    calls,          \* collaborators invoked so far, in order
    fx_rates,       \* table fx_rates: <<date, currency>> -> rate
    fx_log,         \* what each _get_fx_rate call was asked and answered
    amount_str,     \* parse_european_amount: argument
    amount_out,     \* parse_european_amount: returned value
    arg,            \* argument of a helper or parser called on its own
    result,         \* value that call returned
    db,             \* the SQLite database: its tables and schema version
    req             \* the requests and calls in flight, with their locals

vars == <<pc, image, text, source, parsed_data, final_results, idx, returned,
          caught, calls, fx_rates, fx_log, amount_str, amount_out, arg,
          result, db, req>>

-----------------------------------------------------------------------------
(* Characters and strings                                                  *)

EURO == "@"

\* F(v): the value v under the name F gives it
Let(v, F(_)) == F(v)

\* the smallest element of a non-empty set of positions
MinOf(S) == CHOOSE i \in S : \A j \in S : i <= j

\* s[a-1:b] with 1-based inclusive bounds, clipped to the string as a slice is
Sub(s, a, b) ==
    LET lo == IF a < 1 THEN 1 ELSE a
        hi == IF b > Len(s) THEN Len(s) ELSE b
    IN  IF lo > hi THEN "" ELSE SubSeq(s, lo, hi)

\* the character at position i, "" outside the string
Ch(s, i) == Sub(s, i, i)

DigitChars == {"0", "1", "2", "3", "4", "5", "6", "7", "8", "9"}

UpperChars == "ABCDEFGHIJKLMNOPQRSTUVWXYZ"

LowerChars == "abcdefghijklmnopqrstuvwxyz"

UpperSet == {Sub(UpperChars, i, i) : i \in 1..26}

LowerSet == {Sub(LowerChars, i, i) : i \in 1..26}

IsDigit(c) == c \in DigitChars

IsUpper(c) == c \in UpperSet

IsLower(c) == c \in LowerSet

\* [a-zA-Z]
IsAlpha(c) == IsUpper(c) \/ IsLower(c)

\* \w
WordChars == DigitChars \cup {"_"} \cup UpperSet \cup LowerSet

\* \s, and the characters str.strip() removes
IsSpace(c) == c \in {" ", "\n", "\t"}

\* the lower case letter of each upper case letter
LowerOf ==
    [c \in UpperSet |->
        Sub(LowerChars, CHOOSE i \in 1..26 : Sub(UpperChars, i, i) = c,
                        CHOOSE i \in 1..26 : Sub(UpperChars, i, i) = c)]

LowerCh(c) == IF IsUpper(c) THEN LowerOf[c] ELSE c

RECURSIVE Lower(_)
\* str.lower(), one half of the string after the other
Lower(s) ==
    IF Len(s) <= 1 THEN LowerCh(s)
    ELSE Lower(SubSeq(s, 1, Len(s) \div 2))
            \o Lower(SubSeq(s, Len(s) \div 2 + 1, Len(s)))

\* s[i:] with a 1-based i
From(s, i) == Sub(s, i, Len(s))

\* s.startswith(sub) at position i
MatchAt(s, i, sub) ==
    /\ i >= 1
    /\ i + Len(sub) - 1 <= Len(s)
    /\ SubSeq(s, i, i + Len(sub) - 1) = sub

\* sub in s
Contains(s, sub) == \E i \in 1..(Len(s) - Len(sub) + 1) : MatchAt(s, i, sub)

\* s.find(sub) + 1: position of the first occurrence, 0 when there is none
Find(s, sub) ==
    Let({i \in 1..Len(s) : MatchAt(s, i, sub)},
        LAMBDA hits : IF hits = {} THEN 0 ELSE MinOf(hits))

\* s.rfind(c) + 1: position of the last occurrence, 0 when there is none
RFind(s, c) ==
    Let({i \in 1..Len(s) : MatchAt(s, i, c)},
        LAMBDA hits : IF hits = {} THEN 0
                      ELSE CHOOSE i \in hits : \A j \in hits : j <= i)

RECURSIVE Replace(_, _, _)
\* s.replace(c, r) for a one-character c, one half of the string after the
\* other
Replace(s, c, r) ==
    IF Len(s) <= 1 THEN (IF s = c THEN r ELSE s)
    ELSE Replace(SubSeq(s, 1, Len(s) \div 2), c, r)
            \o Replace(SubSeq(s, Len(s) \div 2 + 1, Len(s)), c, r)

RECURSIVE RemoveChars(_, _)
\* re.sub('[cs]', '', s), one half of the string after the other
RemoveChars(s, cs) ==
    IF Len(s) <= 1 THEN (IF s \in cs THEN "" ELSE s)
    ELSE RemoveChars(SubSeq(s, 1, Len(s) \div 2), cs)
            \o RemoveChars(SubSeq(s, Len(s) \div 2 + 1, Len(s)), cs)

RECURSIVE LStrip(_)
LStrip(s) == IF Len(s) > 0 /\ IsSpace(Ch(s, 1)) THEN LStrip(From(s, 2)) ELSE s

RECURSIVE RStrip(_)
RStrip(s) ==
    IF Len(s) > 0 /\ IsSpace(Ch(s, Len(s)))
    THEN RStrip(SubSeq(s, 1, Len(s) - 1))
    ELSE s

\* str.strip()
Strip(s) == LStrip(RStrip(s))

RECURSIVE SplitOn(_, _)
\* s.split(c) for a one-character c
SplitOn(s, c) ==
    Let(Find(s, c),
        LAMBDA p : IF p = 0 THEN <<s>>
                   ELSE <<SubSeq(s, 1, p - 1)>> \o SplitOn(From(s, p + 1), c))

RECURSIVE JoinWith(_, _)
\* c.join(ss)
JoinWith(ss, c) ==
    IF Len(ss) = 0 THEN ""
    ELSE IF Len(ss) = 1 THEN ss[1]
    ELSE ss[1] \o c \o JoinWith(Tail(ss), c)

\* the longest run of characters of class P(_) starting at i: its end + 1
RECURSIVE RunEnd(_, _, _)
RunEnd(s, i, cs) ==
    IF i >= 1 /\ i <= Len(s) /\ Ch(s, i) \in cs THEN RunEnd(s, i + 1, cs) ELSE i

RECURSIVE SkipSpace(_, _)
\* \s* at i: the position after the white space
SkipSpace(s, i) ==
    IF i <= Len(s) /\ IsSpace(Ch(s, i)) THEN SkipSpace(s, i + 1) ELSE i

\* [line.strip() for line in text.split('\n') if line.strip()]
StrippedLines(t) ==
    Let(SplitOn(t, "\n"),
        LAMBDA raw :
            Let([i \in 1..Len(raw) |-> Strip(raw[i])],
                LAMBDA stripped : SelectSeq(stripped, LAMBDA line : line # "")))

-----------------------------------------------------------------------------
(* Python floats as exact decimals                                         *)

NONE == [none |-> TRUE]

NoneStr == "<None>"

AllDigits(s) == \A i \in 1..Len(s) : IsDigit(Ch(s, i))

DigitValues ==
    [c \in DigitChars |-> CHOOSE d \in 0..9 : Sub("0123456789", d + 1, d + 1) = c]

DigitVal(c) == DigitValues[c]

RECURSIVE DigitsVal(_)
\* int(s) for a string of digits ('' counts 0)
DigitsVal(s) ==
    IF Len(s) = 0 THEN 0
    ELSE 10 * DigitsVal(SubSeq(s, 1, Len(s) - 1)) + DigitVal(Ch(s, Len(s)))

RECURSIVE IntStr(_)
\* str(n) for n >= 0
IntStr(n) ==
    IF n < 10 THEN Ch("0123456789", n + 1)
    ELSE IntStr(n \div 10) \o Ch("0123456789", (n % 10) + 1)

RECURSIVE Zeros(_)
Zeros(n) ==
    IF n = 0 THEN ""
    ELSE IF n = 1 THEN "0"
    ELSE Zeros(n \div 2) \o Zeros(n - n \div 2)

\* the digit string d without its leading zeros, "0" when nothing is left
NoLeadingZeros(d) ==
    Let({i \in 1..Len(d) : Ch(d, i) # "0"}, LAMBDA nonzero :
        IF nonzero = {} THEN "0" ELSE From(d, MinOf(nonzero)))

\* the decimal m / 10^e, m a digit string, without trailing zero decimals and
\* without leading zeros
Norm(v) ==
    Let({k \in 0..v.e : \A j \in 1..k : Ch(v.m, Len(v.m) + 1 - j) = "0"},
        LAMBDA drops :
    Let(CHOOSE k \in drops : \A other \in drops : other <= k, LAMBDA k :
    Let(NoLeadingZeros(SubSeq(v.m, 1, Len(v.m) - k)), LAMBDA m :
        IF m = "0" THEN [m |-> "0", e |-> 0]
        ELSE [m |-> m, e |-> v.e - k])))

\* the float digits / 10^e
DecStr(digits, e) == Norm([m |-> NoLeadingZeros(digits), e |-> e])

\* the float n / 10^e
Dec(n, e) == DecStr(IntStr(n), e)

ZERO == Dec(0, 0)

ONE == Dec(1, 0)

\* a < b for digit strings of one length
DigitsLess(a, b) ==
    Let({i \in 1..Len(a) : Ch(a, i) # Ch(b, i)}, LAMBDA differ :
        /\ differ # {}
        /\ DigitVal(Ch(a, MinOf(differ))) < DigitVal(Ch(b, MinOf(differ))))

\* a < b for two floats
DecLess(a, b) ==
    Let(NoLeadingZeros(a.m \o Zeros(b.e)), LAMBDA x :
    Let(NoLeadingZeros(b.m \o Zeros(a.e)), LAMBDA y :
        IF Len(x) # Len(y) THEN Len(x) < Len(y) ELSE DigitsLess(x, y)))

\* a <= b for two floats
DecLeq(a, b) == ~DecLess(b, a)

INF == [inf |-> TRUE]

NAN == [nan |-> TRUE]

\* the digit run of a float literal: digits, single underscores between them
DigitGroups(s) ==
    \A i \in 1..Len(s) :
        \/ IsDigit(Ch(s, i))
        \/ /\ Ch(s, i) = "_"
           /\ i > 1
           /\ i < Len(s)
           /\ IsDigit(Ch(s, i - 1))
           /\ IsDigit(Ch(s, i + 1))

\* the first 17 digits of the least decimal that float() rounds to inf
OverflowDigits == "17976931348623159"

\* the float digits * 10^(x - scale): inf from 1.7976931348623159e308 on,
\* 0.0 below 1e-324
Scaled(digits, scale, x) ==
    Let(NoLeadingZeros(digits), LAMBDA nz :
    Let(Len(nz) + x - scale, LAMBDA magnitude :
        IF nz = "0" THEN DecStr("0", 0)
        ELSE IF magnitude > 309 THEN INF
        ELSE IF /\ magnitude = 309
                /\ ~DigitsLess(SubSeq(nz \o Zeros(17), 1, 17), OverflowDigits)
        THEN INF
        ELSE IF magnitude < 0 - 323 THEN DecStr("0", 0)
        ELSE IF scale >= x THEN DecStr(nz, scale - x)
        ELSE DecStr(nz \o Zeros(x - scale), 0)))

\* digits, at most one '.', at least one digit, times 10^x; NONE otherwise
Mantissa(s, x) ==
    Let(Find(s, "."), LAMBDA p :
    Let(IF p = 0 THEN s ELSE SubSeq(s, 1, p - 1), LAMBDA ip :
    Let(IF p = 0 THEN "" ELSE From(s, p + 1), LAMBDA fp :
        IF DigitGroups(ip) /\ DigitGroups(fp) /\ Len(ip) + Len(fp) > 0
        THEN Let(RemoveChars(fp, {"_"}), LAMBDA fd :
                 Scaled(RemoveChars(ip, {"_"}) \o fd, Len(fd), x))
        ELSE NONE)))

\* the exponent after 'e': an optional sign and digits
ExponentOf(s) ==
    Let(IF s # "" /\ Ch(s, 1) \in {"+", "-"} THEN From(s, 2) ELSE s,
        LAMBDA ds :
            IF ds = "" \/ ~DigitGroups(ds) THEN [ok |-> FALSE, val |-> 0]
            ELSE Let(NoLeadingZeros(RemoveChars(ds, {"_"})), LAMBDA d :
                 Let(IF Len(d) > 4 THEN 9999 ELSE DigitsVal(d), LAMBDA n :
                     [ok |-> TRUE,
                      val |-> IF Ch(s, 1) = "-" THEN 0 - n ELSE n])))

\* a literal with a letter: inf, infinity, nan, or mantissa 'e' exponent
WordOrExponent(u) ==
    Let(Lower(u), LAMBDA w :
        IF w \in {"inf", "infinity"} THEN INF
        ELSE IF w = "nan" THEN NAN
        ELSE Let(Find(w, "e"), LAMBDA p :
                 IF p = 0 THEN NONE
                 ELSE Let(ExponentOf(From(u, p + 1)), LAMBDA x :
                          IF x.ok THEN Mantissa(SubSeq(u, 1, p - 1), x.val)
                          ELSE NONE)))

\* float(s): white space around the literal ignored, an optional sign, then
\* inf, infinity, nan, or digits with at most one '.' and an optional
\* exponent; any other string raises ValueError, here NONE
FloatOf(s0) ==
    Let(Strip(s0), LAMBDA s :
    Let(s # "" /\ Ch(s, 1) \in {"+", "-"}, LAMBDA signed :
    Let(IF signed THEN From(s, 2) ELSE s, LAMBDA u :
    Let(IF \E i \in 1..Len(u) : IsAlpha(Ch(u, i)) THEN WordOrExponent(u)
        ELSE Mantissa(u, 0),
        LAMBDA v : IF signed /\ Ch(s, 1) = "-" /\ v \notin {NONE, NAN}
                   THEN [neg |-> v]
                   ELSE v))))

-----------------------------------------------------------------------------
(* Amount Normalizer: ExpenseParser.parse_european_amount                  *)

POUND == "#"

\* the characters of the class [<euro>$<pound>-]
CurrencyClass == {EURO, "$", POUND, "-"}

\* re.sub(r'[<euro>$<pound>-]', '', amount_str).strip()
CleanAmount(s) == Strip(RemoveChars(s, CurrencyClass))

CommaIsDecimal_swapped(cleaned) == RFind(cleaned, ",") < RFind(cleaned, ".")

\* cleaned.rfind(',') > cleaned.rfind('.')
CommaIsDecimal(cleaned) == RFind(cleaned, ",") > RFind(cleaned, ".")

TwoDigitsAfterComma_any(cleaned) ==
    LET after_comma == From(cleaned, RFind(cleaned, ",") + 1)
    IN  AllDigits(after_comma) /\ Len(after_comma) > 0

\* len(after_comma) == 2 and after_comma.isdigit()
TwoDigitsAfterComma(cleaned) ==
    LET after_comma == From(cleaned, RFind(cleaned, ",") + 1)
    IN  Len(after_comma) = 2 /\ AllDigits(after_comma)

\* the separator handling: the string handed to float()
NormalizeSeparators(cleaned) ==
    IF Contains(cleaned, ".") /\ Contains(cleaned, ",")
    THEN IF CommaIsDecimal(cleaned)
         THEN Replace(Replace(cleaned, ".", ""), ",", ".")
         ELSE Replace(cleaned, ",", "")
    ELSE IF Contains(cleaned, ",")
    THEN IF TwoDigitsAfterComma(cleaned)
         THEN Replace(cleaned, ",", ".")
         ELSE Replace(cleaned, ",", "")
    ELSE cleaned

parse_european_amount(s) ==
    IF s = "" THEN NONE
    ELSE Let(CleanAmount(s),
             LAMBDA cleaned : FloatOf(NormalizeSeparators(cleaned)))

-----------------------------------------------------------------------------
(* Text Cleaner, Categorizer, relative dates: ExpenseParser                *)

\* any(keyword in text_lower for keyword in keywords)
AnyIn(keywords, text_lower) ==
    \E k \in 1..Len(keywords) : Contains(text_lower, keywords[k])

category_map == <<
    <<"Restaurants", <<"restaurant", "pizzeria", "pompernikkel", "eetcafe">> >>,
    <<"Groceries", <<"supermarket", "albert heijn", "jumbo", "lidl", "aldi",
                     "global supermarkt">> >>,
    <<"Household", <<"household", "bakkerij", "kiosk", "sapn">> >>,
    <<"Caffeine", <<"coffee", "cafe", "koffie", "starbucks", "espresso">> >>,
    <<"Car", <<"fuel", "gas", "petrol", "parking", "sanef", "autoroute",
               "esso", "rouenpalaisauto">> >>,
    <<"Transport", <<"transport", "taxi", "uber", "bus", "train">> >>,
    <<"Sport", <<"zwembad", "swimming", "gym", "fitness", "sport", "tennis",
                 "voetbal", "hockey">> >> >>

\* a mutation of smart_categorize: the last matching category of the table
smart_categorize_last(t) ==
    Let(Lower(t), LAMBDA text_lower :
    Let({c \in 1..Len(category_map) : AnyIn(category_map[c][2], text_lower)},
        LAMBDA hits : IF hits = {} THEN "Other"
                      ELSE category_map[CHOOSE c \in hits :
                                           \A d \in hits : d <= c][1]))

smart_categorize(t) ==
    Let(Lower(t), LAMBDA text_lower :
    Let({c \in 1..Len(category_map) : AnyIn(category_map[c][2], text_lower)},
        LAMBDA hits : IF hits = {} THEN "Other"
                      ELSE category_map[MinOf(hits)][1]))

RECURSIVE RemovePasCodes(_)
\* re.sub(r',PAS\d+', '', s, flags=re.IGNORECASE)
RemovePasCodes(s) ==
    Let({i \in 1..Len(s) : /\ Lower(Sub(s, i, i + 3)) = ",pas"
                           /\ IsDigit(Ch(s, i + 4))},
        LAMBDA hits :
            IF hits = {} THEN s
            ELSE Sub(s, 1, MinOf(hits) - 1)
                    \o RemovePasCodes(
                           From(s, RunEnd(s, MinOf(hits) + 4, DigitChars))))

\* re.sub(r'^BEA,\s*', '', s, flags=re.IGNORECASE)
RemoveBeaPrefix(s) ==
    IF Lower(Sub(s, 1, 4)) = "bea," THEN From(s, SkipSpace(s, 5)) ELSE s

\* re.sub(r'\s*,\s*$', '', s): the last comma, when only white space follows
\* it, goes with the white space around it
RemoveTrailingComma(s) ==
    Let(RStrip(s),
        LAMBDA t : IF Len(t) > 0 /\ Ch(t, Len(t)) = ","
                   THEN RStrip(SubSeq(t, 1, Len(t) - 1))
                   ELSE s)

RECURSIVE SplitCommaSpace(_)
\* re.split(r'[,\s]+', s)
SplitCommaSpace(s) ==
    Let({i \in 1..Len(s) : Ch(s, i) \in {",", " ", "\n", "\t"}},
        LAMBDA hits :
            IF hits = {} THEN <<s>>
            ELSE <<SubSeq(s, 1, MinOf(hits) - 1)>>
                    \o SplitCommaSpace(
                           From(s, RunEnd(s, MinOf(hits),
                                          {",", " ", "\n", "\t"}))))

\* re.match(r'^(bea|pas\d+)$', part.lower())
IsBeaOrPas(part) ==
    Let(Lower(part),
        LAMBDA l : \/ l = "bea"
                   \/ /\ Sub(l, 1, 3) = "pas"
                      /\ Len(l) > 3
                      /\ AllDigits(From(l, 4)))

\* the SAPN + Google Pay recombination
CombineMeaningful(cleaned) ==
    IF Let(Lower(cleaned),
           LAMBDA l : Contains(l, "sapn") /\ Contains(l, "google pay"))
    THEN Let(SelectSeq(SplitCommaSpace(cleaned),
                       LAMBDA part : part # "" /\ ~IsBeaOrPas(part)),
             LAMBDA meaningful :
                 IF Len(meaningful) > 1 THEN JoinWith(meaningful, " ")
                 ELSE cleaned)
    ELSE cleaned

clean_description(description) ==
    IF description = "" THEN description
    ELSE Strip(CombineMeaningful(
            RemoveTrailingComma(RemoveBeaPrefix(RemovePasCodes(description)))))

relative_indicators ==
    <<"today", "yesterday", "vandaag", "gisteren", "this morning", "vanmorgen">>

\* a mutation of detect_relative_date: no phrase is ever detected
detect_relative_date_never(t) == NoneStr

\* the first indicator of the list the text holds, NoneStr when it holds none
detect_relative_date(t) ==
    Let(Lower(t), LAMBDA text_lower :
    Let({k \in 1..Len(relative_indicators) :
            Contains(text_lower, relative_indicators[k])},
        LAMBDA hits : IF hits = {} THEN NoneStr
                      ELSE relative_indicators[MinOf(hits)]))

-----------------------------------------------------------------------------
(* Source Identifier: SourceIdentifier.identify_source                     *)

abn_indicators ==
    <<"abn amro", "payment terminal", "execution", "tikkie payment request",
      "nl50 abna">>

\* 'split bill' and one of 'points earned', 'kiosk', 'revolut'
IsRevolut(text_lower) ==
    /\ Contains(text_lower, "split bill")
    /\ \/ Contains(text_lower, "points earned")
       \/ Contains(text_lower, "kiosk")
       \/ Contains(text_lower, "revolut")

\* 'execution' in text_lower and 'from account' in text_lower
IsAbnSingle(text_lower) ==
    Contains(text_lower, "execution") /\ Contains(text_lower, "from account")

\* the end + 1 of a match of -\s*\d+,\d{2} starting at i, 0 when none starts
MinusAmountAt(s, i) ==
    LET j == SkipSpace(s, i + 1)
        k == RunEnd(s, j, DigitChars)
    IN  IF /\ Ch(s, i) = "-"
           /\ k > j
           /\ Ch(s, k) = ","
           /\ k + 2 <= Len(s)
           /\ IsDigit(Ch(s, k + 1))
           /\ IsDigit(Ch(s, k + 2))
        THEN k + 3
        ELSE 0

RECURSIVE CountMinusAmounts(_, _)
\* len(re.findall(r'-\s*\d+,\d{2}', s)), scanning from i
CountMinusAmounts(s, i) ==
    Let({j \in i..Len(s) : MinusAmountAt(s, j) > 0},
        LAMBDA hits :
            IF hits = {} THEN 0
            ELSE 1 + CountMinusAmounts(s, MinusAmountAt(s, MinOf(hits))))

\* backend/ocr_processor.py never imports re: evaluating re.findall on line
\* 70 raises NameError, so neither line 72 nor line 76 is reached
ListOrSingle(text_lower) == "NameError"

\* backend/services.py imports re: lines 279-284
services_ListOrSingle(text_lower) ==
    IF CountMinusAmounts(text_lower, 1) > 1
    THEN "ABN_AMRO_LIST"
    ELSE "ABN_AMRO_SINGLE"

\* a mutation of identify_source: the ABN AMRO fingerprints are tested first
identify_source_abn_first(t) ==
    Let(Lower(t),
        LAMBDA text_lower :
            IF AnyIn(abn_indicators, text_lower)
            THEN IF IsAbnSingle(text_lower) THEN "ABN_AMRO_SINGLE"
                 ELSE ListOrSingle(text_lower)
            ELSE IF IsRevolut(text_lower) THEN "Revolut"
            ELSE "Generic")

\* the kind returned, or "NameError" when the call raises it
identify_source(t) ==
    Let(Lower(t),
        LAMBDA text_lower :
            IF IsRevolut(text_lower) THEN "Revolut"
            ELSE IF AnyIn(abn_indicators, text_lower)
            THEN IF IsAbnSingle(text_lower) THEN "ABN_AMRO_SINGLE"
                 ELSE ListOrSingle(text_lower)
            ELSE "Generic")

\* SourceIdentifier.identify_source of backend/services.py
services_identify_source(t) ==
    Let(Lower(t),
        LAMBDA text_lower :
            IF IsRevolut(text_lower) THEN "Revolut"
            ELSE IF AnyIn(abn_indicators, text_lower)
            THEN IF IsAbnSingle(text_lower) THEN "ABN_AMRO_SINGLE"
                 ELSE services_ListOrSingle(text_lower)
            ELSE "Generic")

-----------------------------------------------------------------------------
(* datetime: strptime, strftime, now                                       *)

\* datetime.now(): the day the model runs on
Now == [y |-> 2025, m |-> 6, d |-> 15]

month_names ==
    <<"january", "february", "march", "april", "may", "june", "july",
      "august", "september", "october", "november", "december">>

weekday_names ==
    <<"monday", "tuesday", "wednesday", "thursday", "friday", "saturday",
      "sunday">>

IsLeap(y) == (y % 4 = 0 /\ y % 100 # 0) \/ y % 400 = 0

DaysIn(m, y) ==
    IF m = 2 THEN (IF IsLeap(y) THEN 29 ELSE 28)
    ELSE IF m \in {4, 6, 9, 11} THEN 30 ELSE 31

Pad2(n) == IF n < 10 THEN "0" \o IntStr(n) ELSE IntStr(n)

Pad4(n) == Zeros(4 - Len(IntStr(n))) \o IntStr(n)

\* date.strftime('%Y-%m-%d')
IsoDate(dt) == Pad4(dt.y) \o "-" \o Pad2(dt.m) \o "-" \o Pad2(dt.d)

Today == IsoDate(Now)

\* %d: 3[0-1]|[1-2]\d|0[1-9]|[1-9]
DayField(ds) ==
    IF Len(ds) \in {1, 2} /\ AllDigits(ds) /\ DigitsVal(ds) \in 1..31
    THEN DigitsVal(ds) ELSE 0

\* %m: 1[0-2]|0[1-9]|[1-9]
MonthField(ms) ==
    IF Len(ms) \in {1, 2} /\ AllDigits(ms) /\ DigitsVal(ms) \in 1..12
    THEN DigitsVal(ms) ELSE 0

\* %Y: \d\d\d\d
YearField(ys) ==
    IF Len(ys) = 4 /\ AllDigits(ys) THEN DigitsVal(ys) ELSE 0

\* %B: a full month name of the C locale, in any case
MonthNameField(name) ==
    Let(Lower(name),
        LAMBDA l : IF \E k \in 1..12 : month_names[k] = l
                   THEN CHOOSE k \in 1..12 : month_names[k] = l
                   ELSE 0)

\* %b: an abbreviated month name of the C locale, in any case
MonthAbbrField(name) ==
    Let(Lower(name),
        LAMBDA l : IF \E k \in 1..12 : Sub(month_names[k], 1, 3) = l
                   THEN CHOOSE k \in 1..12 : Sub(month_names[k], 1, 3) = l
                   ELSE 0)

\* the datetime of day, month and year fields, NONE when strptime raises
\* ValueError (a field did not match, or the day is not in the month)
MakeDate(d, m, y) ==
    IF d > 0 /\ m > 0 /\ y > 0 /\ d <= DaysIn(m, y)
    THEN [y |-> y, m |-> m, d |-> d]
    ELSE NONE

-----------------------------------------------------------------------------
(* Amount-shaped substrings                                                *)

\* the end + 1 of a match of \d+[.,]\d{2} starting at i, 0 when none starts
AmountAt(s, i) ==
    LET k == RunEnd(s, i, DigitChars)
    IN  IF /\ k > i
           /\ Ch(s, k) \in {".", ","}
           /\ IsDigit(Ch(s, k + 1))
           /\ IsDigit(Ch(s, k + 2))
        THEN k + 3
        ELSE 0

RECURSIVE FindAllAmounts(_, _)
\* re.findall(r'(\d+[.,]\d{2})', s), scanning from i
FindAllAmounts(s, i) ==
    Let({j \in i..Len(s) : AmountAt(s, j) > 0},
        LAMBDA hits :
            IF hits = {} THEN <<>>
            ELSE <<SubSeq(s, MinOf(hits), AmountAt(s, MinOf(hits)) - 1)>>
                    \o FindAllAmounts(s, AmountAt(s, MinOf(hits))))

-----------------------------------------------------------------------------
(* GenericParser.parse                                                     *)

total_labels == <<"total", "totaal", "amount", "bedrag">>

\* the group of (?:total|totaal|amount|bedrag)[:\s]+(\d+[,.]\d{2}) matched at
\* i without regard to case, "" when the pattern does not match at i
LabelledAmountAt(s, i) ==
    LET ls == {k \in 1..Len(total_labels) :
                  Lower(Sub(s, i, i + Len(total_labels[k]) - 1)) = total_labels[k]}
    IN  IF ls = {} THEN ""
        ELSE LET j == i + Len(total_labels[MinOf(ls)])
                 a == RunEnd(s, j, {":", " ", "\n", "\t"})
             IN  IF a > j /\ AmountAt(s, a) > 0
                 THEN SubSeq(s, a, AmountAt(s, a) - 1)
                 ELSE ""

\* re.search of the labelled total: its group, "" when there is no match
LabelledAmount(s) ==
    Let({i \in 1..Len(s) : LabelledAmountAt(s, i) # ""},
        LAMBDA hits : IF hits = {} THEN "" ELSE LabelledAmountAt(s, MinOf(hits)))

RECURSIVE MaxAmount(_)
\* max of the parsed amounts that are not None, 0.0 when there is none
MaxAmount(amounts) ==
    IF Len(amounts) = 0 THEN ZERO
    ELSE Let(parse_european_amount(amounts[1]), LAMBDA a :
         Let(MaxAmount(Tail(amounts)), LAMBDA rest :
             IF a # NONE /\ DecLess(rest, a) THEN a ELSE rest))

\* a parser that takes the largest amount whatever the labels
GenericAmount_max(t) == MaxAmount(FindAllAmounts(t, 1))

\* lines 399-410
GenericAmount(t) ==
    Let(LabelledAmount(t),
        LAMBDA labelled : IF labelled # ""
                          THEN parse_european_amount(labelled)
                          ELSE MaxAmount(FindAllAmounts(t, 1)))

\* the three groups of \d{1,2}[./-]\d{1,2}[./-]\d{2,4} matched at i, <<>>
\* when the pattern does not match at i
NumericDateAt(s, i) ==
    LET seps == {".", "/", "-"}
        a == RunEnd(s, i, DigitChars)
        d1 == IF a - i >= 2 /\ Ch(s, i + 2) \in seps THEN i + 2
              ELSE IF a - i >= 1 /\ Ch(s, i + 1) \in seps THEN i + 1 ELSE 0
        b == RunEnd(s, d1 + 1, DigitChars)
        d2 == IF d1 = 0 THEN 0
              ELSE IF b - d1 - 1 >= 2 /\ Ch(s, d1 + 3) \in seps THEN d1 + 3
              ELSE IF b - d1 - 1 >= 1 /\ Ch(s, d1 + 2) \in seps THEN d1 + 2
              ELSE 0
        c == RunEnd(s, d2 + 1, DigitChars)
        ylen == IF c - d2 - 1 > 4 THEN 4 ELSE c - d2 - 1
    IN  IF d1 > 0 /\ d2 > 0 /\ ylen >= 2
        THEN <<SubSeq(s, i, d2 + ylen)>>
        ELSE <<>>

\* re.search(r'(\d{1,2}[./-]\d{1,2}[./-]\d{2,4})', s): its group, "" when
\* there is no match
NumericDate(s) ==
    Let({i \in 1..Len(s) : NumericDateAt(s, i) # <<>>},
        LAMBDA hits : IF hits = {} THEN ""
                      ELSE NumericDateAt(s, MinOf(hits))[1])

\* datetime.strptime(d_str, '%d/%m/%Y'), NONE when it raises ValueError
StrptimeDMY(d_str) ==
    Let(SplitOn(d_str, "/"),
        LAMBDA parts : IF Len(parts) = 3
                       THEN MakeDate(DayField(parts[1]), MonthField(parts[2]),
                                     YearField(parts[3]))
                       ELSE NONE)

\* lines 416-424
GenericDate(t) ==
    Let(NumericDate(t), LAMBDA date_match :
    Let(StrptimeDMY(Replace(date_match, "-", "/")), LAMBDA parsed_date :
        IF date_match # "" /\ parsed_date # NONE
        THEN IsoDate(parsed_date)
        ELSE Today))

GenericParser_parse(t) ==
    Let(GenericAmount(t), LAMBDA amount :
    Let(StrippedLines(t), LAMBDA lines :
    Let(IF Len(lines) > 0 THEN lines[1] ELSE "Scanned Expense",
        LAMBDA description :
    Let(clean_description(description), LAMBDA cleaned_desc :
        IF amount = ZERO /\ description = "Scanned Expense"
        THEN <<>>
        ELSE << [amount |-> amount,
                 currency |-> "EUR",
                 date |-> GenericDate(t),
                 description |-> cleaned_desc,
                 category |-> smart_categorize(cleaned_desc)] >>))))

-----------------------------------------------------------------------------
(* RevolutParser.parse                                                     *)

\* re.search(r'-?<euro>?(\d+[.,]\d{2})', line): its group, "" when there is
\* no match. The optional sign and glyph do not move the group: it is the
\* first amount-shaped substring of the line
FirstAmount(line) ==
    Let(FindAllAmounts(line, 1),
        LAMBDA found : IF Len(found) = 0 THEN "" ELSE found[1])

\* the group of charged by merchant\s+<euro>(\d+[.,]\d{2}) matched at i
\* without regard to case, "" when the pattern does not match at i
ChargedAmountAt(line, i) ==
    LET j == i + Len("charged by merchant")
        a == SkipSpace(line, j)
    IN  IF /\ Lower(Sub(line, i, j - 1)) = "charged by merchant"
           /\ a > j
           /\ Ch(line, a) = EURO
           /\ AmountAt(line, a + 1) > 0
        THEN SubSeq(line, a + 1, AmountAt(line, a + 1) - 1)
        ELSE ""

\* re.search of the pattern in one line: its group, "" when there is no match
ChargedAmount(line) ==
    Let({i \in 1..Len(line) : ChargedAmountAt(line, i) # ""},
        LAMBDA hits : IF hits = {} THEN ""
                      ELSE ChargedAmountAt(line, MinOf(hits)))

\* lines 134-143: the amount, NoneStr when the key 'amount' is never set
RevolutAmount(lines) ==
    Let(FirstAmount(lines[1]),
        LAMBDA first :
            IF first # "" THEN parse_european_amount(first)
            ELSE Let([k \in 1..Len(lines) |-> ChargedAmount(lines[k])],
                     LAMBDA charged :
                         Let({k \in 1..Len(lines) : charged[k] # ""},
                             LAMBDA hits :
                                 IF hits = {} THEN NONE
                                 ELSE parse_european_amount(
                                          charged[MinOf(hits)]))))

\* re.match(r'^\d{2}:\d{2}', line)
StartsWithTime(line) ==
    /\ IsDigit(Ch(line, 1))
    /\ IsDigit(Ch(line, 2))
    /\ Ch(line, 3) = ":"
    /\ IsDigit(Ch(line, 4))
    /\ IsDigit(Ch(line, 5))

\* re.match(r'^[<euro>\d\s,.-]+$', line)
OnlyAmountChars(line) ==
    /\ Len(line) > 0
    /\ \A i \in 1..Len(line) :
          \/ IsDigit(Ch(line, i))
          \/ IsSpace(Ch(line, i))
          \/ Ch(line, i) \in {EURO, ",", ".", "-"}

\* the line the merchant loop accepts
IsMerchantLine(line) ==
    /\ ~StartsWithTime(line)
    /\ ~Contains(Lower(line), "today")
    /\ Len(line) > 1
    /\ ~OnlyAmountChars(line)

\* the merchant loop looks at lines[1], lines[2], lines[3] of the 0-based list
MerchantWindow(lines) == 2..(IF Len(lines) < 4 THEN Len(lines) ELSE 4)

\* lines 146-155: the description, NoneStr when the key is never set
RevolutDescription(lines) ==
    Let({i \in MerchantWindow(lines) : IsMerchantLine(lines[i])},
        LAMBDA hits : IF hits = {} THEN NoneStr
                      ELSE clean_description(lines[MinOf(hits)]))

\* the match of (\w+\s+\d+) at i: <<word, digits>>, <<>> when it does not
\* match at i
WordNumberAt(s, i) ==
    LET w == RunEnd(s, i, WordChars)
        f == SkipSpace(s, w)
        g == RunEnd(s, f, DigitChars)
    IN  IF w > i /\ f > w /\ g > f
        THEN <<SubSeq(s, i, w - 1), SubSeq(s, f, g - 1)>>
        ELSE <<>>

\* re.search(r'(\w+\s+\d+)', s): <<word, digits>> of its group, <<>> when
\* there is no match
WordNumber(s) ==
    Let({i \in 1..Len(s) : WordNumberAt(s, i) # <<>>},
        LAMBDA hits : IF hits = {} THEN <<>> ELSE WordNumberAt(s, MinOf(hits)))

\* lines 160-172
RevolutDate(lines) ==
    Let(IF Len(lines) > 3 THEN lines[3] \o " " \o lines[4] ELSE "",
        LAMBDA date_str :
    Let(WordNumber(date_str), LAMBDA date_match :
    Let(IF date_match = <<>> THEN NONE
        ELSE MakeDate(DayField(date_match[2]), MonthAbbrField(date_match[1]),
                      Now.y),
        LAMBDA parsed_date :
            IF parsed_date # NONE THEN IsoDate(parsed_date) ELSE Today)))

\* the end + 1 of the run of characters of the class [\w\s&] starting at i
CategoryRunEnd(s, i) == RunEnd(s, i, WordChars \cup {" ", "\n", "\t", "&"})

\* the group of Category\s+([\w\s&]+) matched at i without regard to case,
\* <<>> when the pattern does not match at i. Where the white space is
\* followed by no character of the group's class, the group is the last
\* white space character
CategoryAt(s, i) ==
    LET j == i + Len("category")
        a == SkipSpace(s, j)
    IN  IF Lower(Sub(s, i, j - 1)) # "category" \/ a = j THEN <<>>
        ELSE IF CategoryRunEnd(s, a) > a
        THEN <<SubSeq(s, a, CategoryRunEnd(s, a) - 1)>>
        ELSE IF a - j >= 2 THEN <<SubSeq(s, a - 1, a - 1)>>
        ELSE <<>>

\* re.search(r'Category\s+([\w\s&]+)', text, re.IGNORECASE): <<group>>, <<>>
\* when there is no match
CategoryLabel(s) ==
    Let({i \in 1..Len(s) : CategoryAt(s, i) # <<>>},
        LAMBDA hits : IF hits = {} THEN <<>> ELSE CategoryAt(s, MinOf(hits)))

date_warning(relative_date) ==
    "Original showed '" \o relative_date \o "' - please verify date"

\* lines 175-185: the candidate of the fields found
RevolutCandidate(lines, relative_date, amount, description, category) ==
    IF amount = NONE \/ amount = ZERO
       \/ description = NoneStr \/ description = ""
    THEN <<>>
    ELSE IF relative_date # NoneStr
    THEN << [currency |-> "EUR", amount |-> amount,
             description |-> description, category |-> category,
             date |-> "", date_warning |-> date_warning(relative_date)] >>
    ELSE << [currency |-> "EUR", amount |-> amount,
             description |-> description, category |-> category,
             date |-> RevolutDate(lines)] >>

RevolutParser_parse(t) ==
    Let(StrippedLines(t), LAMBDA lines :
        IF Len(lines) = 0 THEN <<>>
        ELSE
        Let(detect_relative_date(t), LAMBDA relative_date :
        Let(RevolutAmount(lines), LAMBDA amount :
        Let(RevolutDescription(lines), LAMBDA description :
        Let(CategoryLabel(t), LAMBDA label :
            RevolutCandidate(lines, relative_date, amount, description,
                             IF label # <<>> THEN Strip(label[1])
                             ELSE IF description = NoneStr THEN "Other"
                             ELSE smart_categorize(description)))))))

-----------------------------------------------------------------------------
(* ABNAmroSingleParser                                                     *)

\* 0.01 <= abs(amount) <= 100000
InRange(amount) ==
    /\ amount # NONE
    /\ DecLeq(Dec(1, 2), amount)
    /\ DecLeq(amount, Dec(100000, 0))

\* the match of -?\d+[,.]\d{2} at i: <<group, end + 1>>, <<>> when there is none
SignedAmountAt(s, i) ==
    LET a == IF Ch(s, i) = "-" THEN i + 1 ELSE i
    IN  IF AmountAt(s, a) > 0
        THEN <<SubSeq(s, i, AmountAt(s, a) - 1), AmountAt(s, a)>>
        ELSE <<>>

\* pattern 1, <euro>\s*(-?\d+[,.]\d{2}), at i
GlyphFirstAt(s, i) ==
    IF Ch(s, i) = EURO THEN SignedAmountAt(s, SkipSpace(s, i + 1)) ELSE <<>>

\* pattern 2, (-?\d+[,.]\d{2})\s*<euro>, at i
GlyphLastAt(s, i) ==
    LET m == SignedAmountAt(s, i)
    IN  IF m # <<>> /\ Ch(s, SkipSpace(s, m[2])) = EURO
        THEN <<m[1], SkipSpace(s, m[2]) + 1>>
        ELSE <<>>

\* pattern 3, <euro>\s*(-?\d+[,.]?\d*), at i
GlyphLooseAt(s, i) ==
    LET j == SkipSpace(s, i + 1)
        a == IF Ch(s, j) = "-" THEN j + 1 ELSE j
        k == RunEnd(s, a, DigitChars)
        e == IF Ch(s, k) \in {",", "."} THEN RunEnd(s, k + 1, DigitChars) ELSE k
    IN  IF Ch(s, i) = EURO /\ k > a
        THEN <<SubSeq(s, j, e - 1), e>>
        ELSE <<>>

\* pattern 1, 2, 3 or the bare pattern (-?\d+[,.]\d{2}) at i
PatternAt(n, s, i) ==
    CASE n = 1 -> GlyphFirstAt(s, i)
      [] n = 2 -> GlyphLastAt(s, i)
      [] n = 3 -> GlyphLooseAt(s, i)
      [] OTHER -> SignedAmountAt(s, i)

RECURSIVE FindAllPattern(_, _, _)
\* re.findall(pattern n, s), scanning from i
FindAllPattern(n, s, i) ==
    Let({j \in i..Len(s) : PatternAt(n, s, j) # <<>>},
        LAMBDA hits :
            IF hits = {} THEN <<>>
            ELSE Let(PatternAt(n, s, MinOf(hits)),
                     LAMBDA m : <<m[1]>> \o FindAllPattern(n, s, m[2])))

\* the first match whose amount is in range, NONE when there is none
FirstInRange(matches) ==
    Let({k \in 1..Len(matches) : InRange(parse_european_amount(matches[k]))},
        LAMBDA hits : IF hits = {} THEN NONE
                      ELSE parse_european_amount(matches[MinOf(hits)]))

\* Strategy 1: the first of the three glyph patterns with a match in range
AmountNearGlyph(full_text) ==
    Let([n \in 1..3 |-> FirstInRange(FindAllPattern(n, full_text, 1))],
        LAMBDA amounts :
            Let({n \in 1..3 : amounts[n] # NONE},
                LAMBDA hits : IF hits = {} THEN NONE ELSE amounts[MinOf(hits)]))

context_words == <<"balance", "charged", "your total">>

\* re.search(r'(-?\d+[,.]\d{2})', line): its group, "" when there is no match
FirstSignedAmount(line) ==
    Let(FindAllPattern(4, line, 1),
        LAMBDA found : IF Len(found) = 0 THEN "" ELSE found[1])

\* Strategy 2: the first context line with an amount; no range is applied
AmountInContext(lines) ==
    Let({k \in 1..Len(lines) :
            /\ AnyIn(context_words, Lower(lines[k]))
            /\ FirstSignedAmount(lines[k]) # ""},
        LAMBDA hits :
            IF hits = {} THEN NONE
            ELSE parse_european_amount(FirstSignedAmount(lines[MinOf(hits)])))

\* Strategy 3: the first amount-shaped substring in range
AmountAnywhere(full_text) == FirstInRange(FindAllPattern(4, full_text, 1))

extract_amount_robust(full_text, lines) ==
    Let(AmountNearGlyph(full_text),
        LAMBDA near_glyph :
            IF near_glyph # NONE THEN near_glyph
            ELSE Let(AmountInContext(lines),
                     LAMBDA in_context :
                         IF in_context # NONE THEN in_context
                         ELSE AmountAnywhere(full_text)))

\* str.split(): the runs of characters that are not white space
RECURSIVE Words(_)
Words(s) ==
    Let(LStrip(s), LAMBDA t :
    Let({i \in 1..Len(t) : IsSpace(Ch(t, i))}, LAMBDA hits :
        IF t = "" THEN <<>>
        ELSE IF hits = {} THEN <<t>>
        ELSE <<SubSeq(t, 1, MinOf(hits) - 1)>> \o Words(From(t, MinOf(hits)))))

\* datetime.strptime(day + ' ' + month + ' ' + year, '%d %B %Y'), NONE when
\* it raises ValueError
StrptimeDBY(day, month, year) ==
    MakeDate(DayField(day), MonthNameField(month), YearField(year))

\* the group of Execution\s*\n\s*([^\n]+) matched at i without regard to
\* case, "" when the pattern does not match at i
ExecutionBlockAt(s, i) ==
    LET j == i + Len("execution")
        w == SkipSpace(s, j)
        nl == Find(From(s, w), "\n")
    IN  IF /\ Lower(Sub(s, i, j - 1)) = "execution"
           /\ Contains(Sub(s, j, w - 1), "\n")
           /\ w <= Len(s)
        THEN IF nl = 0 THEN From(s, w) ELSE SubSeq(s, w, w + nl - 2)
        ELSE ""

\* pattern 0: the date of the line after 'Execution', NONE when the pattern
\* does not match, the line has fewer than three words or the last three are
\* no date
ExecutionDate(s) ==
    Let({i \in 1..Len(s) : ExecutionBlockAt(s, i) # ""},
        LAMBDA hits :
            IF hits = {} THEN NONE
            ELSE Let(Words(Strip(ExecutionBlockAt(s, MinOf(hits)))),
                     LAMBDA date_parts :
                         IF Len(date_parts) < 3 THEN NONE
                         ELSE StrptimeDBY(date_parts[Len(date_parts) - 2],
                                          date_parts[Len(date_parts) - 1],
                                          date_parts[Len(date_parts)])))

\* the end + 1 of the name of the list that starts at i without regard to
\* case, 0 when none does
NameAt(names, s, i) ==
    Let({k \in 1..Len(names) :
            Lower(Sub(s, i, i + Len(names[k]) - 1)) = names[k]},
        LAMBDA hits : IF hits = {} THEN 0 ELSE i + Len(names[MinOf(hits)]))

\* the match of (\d{4}) at i
FourDigitsAt(s, i) == RunEnd(s, i, DigitChars) >= i + 4

\* the groups of (weekday)\s+(\d{1,2})\s+(\w+)\s+(\d{4}) matched at i:
\* <<day, month, year>>, <<>> when the pattern does not match at i
WeekdayDateAt(s, i) ==
    LET a == NameAt(weekday_names, s, i)
        b == SkipSpace(s, a)
        c == RunEnd(s, b, DigitChars)
        d == SkipSpace(s, c)
        e == RunEnd(s, d, WordChars)
        f == SkipSpace(s, e)
    IN  IF /\ a > 0 /\ b > a
           /\ c - b \in {1, 2} /\ d > c
           /\ e > d /\ f > e
           /\ FourDigitsAt(s, f)
        THEN <<SubSeq(s, b, c - 1), SubSeq(s, d, e - 1), SubSeq(s, f, f + 3)>>
        ELSE <<>>

\* the groups of (\d{1,2})\s+(month name)\s+(\d{4}) matched at i for the
\* month names of the list: <<day, month, year>>, <<>> when the pattern does
\* not match at i
DayMonthYearAt(names, s, i) ==
    LET c == IF IsDigit(Ch(s, i)) /\ IsDigit(Ch(s, i + 1)) /\ IsSpace(Ch(s, i + 2))
             THEN i + 2
             ELSE IF IsDigit(Ch(s, i)) /\ IsSpace(Ch(s, i + 1)) THEN i + 1
             ELSE 0
        d == SkipSpace(s, c)
        e == NameAt(names, s, d)
        f == SkipSpace(s, e)
    IN  IF c > 0 /\ e > 0 /\ f > e /\ FourDigitsAt(s, f)
        THEN <<SubSeq(s, i, c - 1), SubSeq(s, d, e - 1), SubSeq(s, f, f + 3)>>
        ELSE <<>>

dutch_month_names ==
    <<"januari", "februari", "maart", "april", "mei", "juni", "juli",
      "augustus", "september", "oktober", "november", "december">>

\* the groups of date pattern n (1, 2 or 3) at i
DatePatternAt(n, s, i) ==
    CASE n = 1 -> WeekdayDateAt(s, i)
      [] n = 2 -> DayMonthYearAt(month_names, s, i)
      [] OTHER -> DayMonthYearAt(dutch_month_names, s, i)

\* re.search of date pattern n and strptime of its groups: NONE when there is
\* no match or strptime raises ValueError
PatternDate(n, s) ==
    Let({i \in 1..Len(s) : DatePatternAt(n, s, i) # <<>>},
        LAMBDA hits :
            IF hits = {} THEN NONE
            ELSE Let(DatePatternAt(n, s, MinOf(hits)),
                     LAMBDA g : StrptimeDBY(g[1], g[2], g[3])))

\* the date in YYYY-MM-DD form, NoneStr when no pattern gives a date
extract_date(full_text) ==
    Let(ExecutionDate(full_text),
        LAMBDA execution :
            IF execution # NONE THEN IsoDate(execution)
            ELSE Let([n \in 1..3 |-> PatternDate(n, full_text)],
                     LAMBDA dates :
                         Let({n \in 1..3 : dates[n] # NONE},
                             LAMBDA hits : IF hits = {} THEN NoneStr
                                           ELSE IsoDate(dates[MinOf(hits)]))))

known_junk ==
    <<"payment terminal", "execution", "from account", "balance after payment",
      "description", "google pay", "tikkie payment request",
      "share this transaction", "actions", "your total", "charged by merchant">>

\* the digit string d plus one
RECURSIVE Succ(_)
Succ(d) ==
    IF d = "" THEN "1"
    ELSE IF Ch(d, Len(d)) = "9" THEN Succ(SubSeq(d, 1, Len(d) - 1)) \o "0"
    ELSE SubSeq(d, 1, Len(d) - 1) \o IntStr(DigitVal(Ch(d, Len(d))) + 1)

\* the digits of round(amount * 100): half up or down by the decimals cut,
\* a tie to the even cent (in Python the binary float decides a tie)
Cents(amount) ==
    IF amount.e <= 2 THEN amount.m \o Zeros(2 - amount.e)
    ELSE LET padded == Zeros(amount.e) \o amount.m
             keep == SubSeq(padded, 1, Len(padded) - amount.e + 2)
             cut == From(padded, Len(padded) - amount.e + 3)
             half == "5" \o Zeros(Len(cut) - 1)
             up == \/ DigitsLess(half, cut)
                   \/ cut = half /\ DigitVal(Ch(keep, Len(keep))) % 2 = 1
         IN  IF up THEN Succ(keep) ELSE keep

\* f"{amount:.2f}".replace('.', ',')
FormatComma(amount) ==
    LET c == NoLeadingZeros(Cents(amount))
        p == IF Len(c) < 3 THEN Zeros(3 - Len(c)) \o c ELSE c
    IN  SubSeq(p, 1, Len(p) - 2) \o "," \o From(p, Len(p) - 1)

\* date_obj.strftime('%B').lower() of a YYYY-MM-DD string
MonthNameOf(trx_date) == month_names[DigitsVal(SubSeq(trx_date, 6, 7))]

\* re.search(r'[a-zA-Z]', line)
HasLetter(line) == \E i \in 1..Len(line) : IsAlpha(Ch(line, i))

\* re.match(r'^[\d\s<euro>,.+-]+$', line)
OnlyNumberChars(line) ==
    /\ Len(line) > 0
    /\ \A i \in 1..Len(line) :
          \/ IsDigit(Ch(line, i))
          \/ IsSpace(Ch(line, i))
          \/ Ch(line, i) \in {EURO, ",", ".", "+", "-"}

\* the line passes every filter of the loop and is appended
IsCandidateLine(line, amount, trx_date) ==
    /\ ~AnyIn(known_junk, Lower(line))
    /\ ~StartsWithTime(line)
    /\ ~(amount # NONE /\ amount # ZERO /\ Contains(line, FormatComma(amount)))
    /\ ~(trx_date # NoneStr /\ Contains(Lower(line), MonthNameOf(trx_date)))
    /\ HasLetter(line)
    /\ Len(line) > 2
    /\ ~OnlyNumberChars(line)

\* the first candidate line, NoneStr when there is none
extract_description(lines, amount, trx_date) ==
    Let({k \in 1..Len(lines) : IsCandidateLine(lines[k], amount, trx_date)},
        LAMBDA hits : IF hits = {} THEN NoneStr ELSE Strip(lines[MinOf(hits)]))

\* lines 207-216: the candidate of an amount, a date and a description
AbnSingleCandidate(amount, trx_date, description, cleaned_desc) ==
    IF amount # NONE /\ description # NoneStr /\ description # ""
    THEN << [amount |-> amount,
             date |-> IF trx_date = NoneStr \/ trx_date = ""
                      THEN Today ELSE trx_date,
             description |-> cleaned_desc,
             currency |-> "EUR",
             category |-> smart_categorize(cleaned_desc)] >>
    ELSE <<>>

ABNAmroSingleParser_parse(t) ==
    Let(StrippedLines(t), LAMBDA lines :
    Let(JoinWith(lines, "\n"), LAMBDA full_text :
    Let(extract_amount_robust(full_text, lines), LAMBDA amount :
    Let(extract_date(full_text), LAMBDA trx_date :
    Let(extract_description(lines, amount, trx_date), LAMBDA description :
        AbnSingleCandidate(amount, trx_date, description,
                           IF description = NoneStr THEN NoneStr
                           ELSE clean_description(description)))))))

-----------------------------------------------------------------------------
(* ABNAmroListParser.parse                                                 *)

\* datetime.strptime(line, '%A %d %B %Y'), NONE when it raises ValueError
StrptimeADBY(line) ==
    Let(Words(line),
        LAMBDA w : IF /\ Len(w) = 4
                      /\ \E k \in 1..7 : weekday_names[k] = Lower(w[1])
                   THEN StrptimeDBY(w[2], w[3], w[4])
                   ELSE NONE)

\* lines 357-367: the date of the first anchor line, today without one
ListDate(lines) ==
    Let({k \in 1..Len(lines) : StrptimeADBY(lines[k]) # NONE},
        LAMBDA hits : IF hits = {} THEN Today
                      ELSE IsoDate(StrptimeADBY(lines[MinOf(hits)])))

\* the group 2 of \s+-\s*(\d+,\d{2})$ matched from j to the end of the line,
\* "" when it does not match
TransactionTail(line, j) ==
    LET a == SkipSpace(line, j)
        b == SkipSpace(line, a + 1)
        k == RunEnd(line, b, DigitChars)
    IN  IF /\ a > j
           /\ Ch(line, a) = "-"
           /\ k > b
           /\ Ch(line, k) = ","
           /\ IsDigit(Ch(line, k + 1))
           /\ IsDigit(Ch(line, k + 2))
           /\ k + 2 = Len(line)
        THEN From(line, b)
        ELSE ""

\* re.match(r'(.+?)\s+-\s*(\d+,\d{2})$', line): <<group 1, group 2>>, <<>>
\* when there is no match; group 1 is the shortest prefix that matches
TransactionMatch(line) ==
    Let({j \in 2..Len(line) : TransactionTail(line, j) # ""},
        LAMBDA hits : IF hits = {} THEN <<>>
                      ELSE <<SubSeq(line, 1, MinOf(hits) - 1),
                             TransactionTail(line, MinOf(hits))>>)

\* a parser that takes the date line for a transaction too
IsTransaction_weekdays(match) ==
    /\ match # <<>>
    /\ parse_european_amount(match[2]) # NONE

\* the match is of a transaction line: lines 372-380
IsTransaction(match) ==
    /\ match # <<>>
    /\ Let(Lower(Strip(match[1])),
           LAMBDA l : \A k \in 1..7 : weekday_names[k] # l)
    /\ parse_european_amount(match[2]) # NONE

\* the candidate of a transaction line: lines 381-388
Transaction(match, current_date) ==
    Let(clean_description(Strip(match[1])),
        LAMBDA cleaned_desc :
            [description |-> cleaned_desc,
             amount |-> parse_european_amount(match[2]),
             date |-> current_date,
             currency |-> "EUR",
             category |-> smart_categorize(cleaned_desc)])

ABNAmroListParser_parse(t) ==
    Let(StrippedLines(t), LAMBDA lines :
    Let(ListDate(lines), LAMBDA current_date :
    Let(SelectSeq([i \in 1..Len(lines) |-> TransactionMatch(lines[i])],
                  IsTransaction),
        LAMBDA matches :
            [i \in 1..Len(matches) |-> Transaction(matches[i], current_date)])))

-----------------------------------------------------------------------------
(* OCRProcessingService: FX lookup                                          *)

\* dict.get(key, default)
Get(item, key, default) == IF key \in DOMAIN item THEN item[key] ELSE default

\* truth value of a float or None
Truthy(x) == x # NONE /\ x # ZERO

FALLBACK_FX_RATES == [USD |-> Dec(108, 2), HUF |-> Dec(400, 0)]

\* config.FALLBACK_FX_RATES.get(currency, 1.0)
FallbackRate(currency) == Get(FALLBACK_FX_RATES, currency, ONE)

\* target_date or date.today().isoformat()
TargetDate(target_date) ==
    IF target_date = NoneStr \/ target_date = "" THEN Today ELSE target_date

\* INSERT OR REPLACE INTO fx_rates (date, currency, rate)
CacheInsert(table, key, rate) ==
    [k \in DOMAIN table \cup {key} |-> IF k = key THEN rate ELSE table[k]]

\* what _get_fx_rate leaves behind: the exception it raises ("" when it
\* returns), the rate returned, where the rate came from, the table
FxOutcome(exc, rate, via, key, table) ==
    [exc |-> exc, rate |-> rate, via |-> via, date |-> key[1],
     currency |-> key[2], table |-> table]

\* _get_fx_rate(currency, target_date) over the table fx_rates, in an
\* environment env: env.read is "raise" when reading the table raises,
\* env.api is the response of the rates API (ok is FALSE when the request
\* raises), env.write is "raise" when writing the table raises
get_fx_rate(currency, target_date, env) ==
    LET key == <<TargetDate(target_date), currency>>
        fallback == FxOutcome("", FallbackRate(currency), "fallback", key,
                              fx_rates)
        rate == Get(env.api.rates, currency, NONE)
    IN  IF currency = "EUR"
        THEN FxOutcome("", ONE, "eur", <<target_date, currency>>, fx_rates)
        ELSE IF env.read = "raise"
        THEN FxOutcome("OperationalError", NONE, "", key, fx_rates)
        ELSE IF key \in DOMAIN fx_rates
        THEN FxOutcome("", fx_rates[key], "cache", key, fx_rates)
        ELSE IF ~env.api.ok
        THEN fallback
        ELSE IF ~Truthy(rate)
        THEN fallback
        ELSE IF env.write = "raise"
        THEN fallback
        ELSE FxOutcome("", rate, "api", key, CacheInsert(fx_rates, key, rate))

-----------------------------------------------------------------------------
(* OCRProcessingService.process_image                                      *)

\* the sequences of at most n elements of S
SeqsUpTo(S, n) == UNION {[1..k -> S] : k \in 0..n}

DEFAULT_PERSON == "Kozos"

RECURSIVE Pow10(_)
Pow10(n) == IF n = 0 THEN 1 ELSE 10 * Pow10(n - 1)

\* round(a / b, 2) for b # 0; a quotient exactly half way between two
\* hundredths goes to the even one (in Python the binary double of the
\* quotient decides such a case)
Round2Div(a, b) ==
    LET N == 100 * DigitsVal(a.m) * Pow10(b.e)
        D == DigitsVal(b.m) * Pow10(a.e)
        q == N \div D
        r == N % D
    IN  Dec(IF 2 * r > D \/ (2 * r = D /\ q % 2 = 1) THEN q + 1 ELSE q, 2)

\* a mutation of amount_eur: the amount is not converted
amount_eur_unconverted(item, fx_rate) == Get(item, "amount", ZERO)

\* line 120
amount_eur(item, fx_rate) ==
    IF Truthy(fx_rate) /\ Truthy(Get(item, "amount", NONE))
    THEN Round2Div(Get(item, "amount", ZERO), fx_rate)
    ELSE ZERO

\* item[key] = value
SetItem(item, key, value) ==
    [k \in DOMAIN item \cup {key} |-> IF k = key THEN value ELSE item[k]]

\* a mutation of SetDefault: the value is stored whether or not the key is set
SetDefault_overwrite(item, key, value) == SetItem(item, key, value)

\* item.setdefault(key, value)
SetDefault(item, key, value) ==
    IF key \in DOMAIN item THEN item ELSE SetItem(item, key, value)

\* lines 119-122: the item after the loop body
Enrich(item, fx_rate) ==
    SetDefault(
        SetDefault(
            SetItem(SetItem(item, "fx_rate", fx_rate),
                    "amount_eur", amount_eur(item, fx_rate)),
            "person", DEFAULT_PERSON),
        "beneficiary", "")

\* OCRProcessor.process_image_with_ocr: the recognised text, "" when opening
\* the image or the OCR engine raises
process_image_with_ocr(image_bytes, engine_ok) ==
    IF engine_ok THEN image_bytes ELSE ""

\* a mutation of IsBlank: no text is taken for blank
IsBlank_never(t) == FALSE

\* not text.strip()
IsBlank(t) == Strip(t) = ""

parsers == {"Revolut", "ABN_AMRO_SINGLE", "ABN_AMRO_LIST", "Generic"}

\* self.parsers.get(source, self.parsers['Generic']), by name
SelectParser(kind) == IF kind \in parsers THEN kind ELSE "Generic"

\* parser.parse(text) of the parser named
RunParser(parser, t) ==
    CASE parser = "Revolut" -> RevolutParser_parse(t)
      [] parser = "ABN_AMRO_SINGLE" -> ABNAmroSingleParser_parse(t)
      [] parser = "ABN_AMRO_LIST" -> ABNAmroListParser_parse(t)
      [] OTHER -> GenericParser_parse(t)

\* a mutation of Catch: the results appended so far are returned
Catch_partial(exc, results) ==
    [pc |-> "done", caught |-> exc, returned |-> results]

\* lines 127-129: except Exception, return []
Catch(exc, results) == [pc |-> "done", caught |-> exc, returned |-> <<>>]

\* lines 103-106: the OCR step and the return on blank text
ProcessImageOCR ==
    /\ pc = "start"
    /\ \E engine_ok \in BOOLEAN :
          LET t == process_image_with_ocr(image, engine_ok)
          IN  /\ text' = t
              /\ calls' = Append(calls, "process_image_with_ocr")
              /\ pc' = IF IsBlank(t) THEN "done" ELSE "identify"
    /\ UNCHANGED <<image, source, parsed_data, final_results, idx, returned,
                   caught, fx_rates, fx_log, amount_str, amount_out,
                   arg, result, db, req>>

\* line 109
Identify ==
    /\ pc = "identify"
    /\ calls' = Append(calls, "identify_source")
    /\ LET kind == identify_source(text)
           handler == Catch(kind, final_results)
       IN  IF kind = "NameError"
           THEN /\ pc' = handler.pc
                /\ caught' = handler.caught
                /\ returned' = handler.returned
                /\ UNCHANGED source
           ELSE /\ pc' = "parse"
                /\ source' = kind
                /\ UNCHANGED <<caught, returned>>
    /\ UNCHANGED <<image, text, parsed_data, final_results, idx, fx_rates,
                   fx_log, amount_str, amount_out,
                   arg, result, db, req>>

\* lines 110-116
Parse ==
    /\ pc = "parse"
    /\ calls' = Append(calls, SelectParser(source))
    /\ parsed_data' = RunParser(SelectParser(source), text)
    /\ pc' = "enrich"
    /\ UNCHANGED <<image, text, source, final_results, idx, returned, caught,
                   fx_rates, fx_log, amount_str, amount_out,
                   arg, result, db, req>>

ApiRates == [USD |-> Dec(125, 2), HUF |-> ZERO]

NoRates == [EUR |-> ONE]

\* the environments of one _get_fx_rate call
FxEnvs ==
    [read : {"ok", "raise"},
     api : {[ok |-> FALSE, rates |-> NoRates], [ok |-> TRUE, rates |-> NoRates],
            [ok |-> TRUE, rates |-> ApiRates]},
     write : {"ok", "raise"}]

\* lines 117-123: one turn of the for loop
EnrichItem ==
    /\ pc = "enrich"
    /\ idx < Len(parsed_data)
    /\ calls' = Append(calls, "_get_fx_rate")
    /\ \E env \in FxEnvs :
          LET item == parsed_data[idx + 1]
              fx == get_fx_rate(Get(item, "currency", "EUR"),
                                Get(item, "date", NoneStr), env)
              handler == Catch(fx.exc, final_results)
          IN  IF fx.exc # ""
              THEN /\ pc' = handler.pc
                   /\ caught' = handler.caught
                   /\ returned' = handler.returned
                   /\ UNCHANGED <<final_results, idx, fx_rates, fx_log>>
              ELSE /\ final_results' = Append(final_results,
                                              Enrich(item, fx.rate))
                   /\ idx' = idx + 1
                   /\ fx_rates' = fx.table
                   /\ fx_log' = Append(fx_log,
                                       [rate |-> fx.rate, via |-> fx.via,
                                        date |-> fx.date,
                                        currency |-> fx.currency])
                   /\ UNCHANGED <<pc, caught, returned>>
    /\ UNCHANGED <<image, text, source, parsed_data, amount_str, amount_out,
                   arg, result, db, req>>

\* line 125
Return ==
    /\ pc = "enrich"
    /\ idx = Len(parsed_data)
    /\ returned' = final_results
    /\ pc' = "done"
    /\ UNCHANGED <<image, text, source, parsed_data, final_results, idx,
                   caught, calls, fx_rates, fx_log, amount_str, amount_out,
                   arg, result, db, req>>

Started ==
    /\ pc = "start"
    /\ text = ""
    /\ source = ""
    /\ parsed_data = <<>>
    /\ final_results = <<>>
    /\ idx = 0
    /\ returned = <<>>
    /\ caught = ""
    /\ calls = <<>>
    /\ fx_log = <<>>
    /\ amount_str = ""
    /\ amount_out = NONE
    /\ arg = ""
    /\ result = ""
    /\ db = <<>>
    /\ req = <<>>

-----------------------------------------------------------------------------
(* process_image over receipt texts                                        *)

\* a receipt text is at most MaxBody body lines and the lines of one footer
MaxBody == 2

BodyLines ==
    {"Hello", "Total 12,34", "Coffee - 4,50", "Shop -1.524,55",
     "-@6,50", "BEA, - 0,00", "Yesterday", "Category Food", "15/03/2024",
     "Taxi 9,99"}

Footers ==
    {<<>>,
     <<"Split bill", "Points earned">>,
     <<"Split bill Revolut", "ABN AMRO">>,
     <<"Execution 29 May 2025", "From account">>,
     <<"ABN AMRO">>}

Images ==
    {"", " \n "} \cup
    {JoinWith(body \o footer, "\n") :
        body \in SeqsUpTo(BodyLines, MaxBody), footer \in Footers}

Init ==
    /\ Started
    /\ image \in Images
    /\ fx_rates = <<>>

Next ==
    \/ ProcessImageOCR
    \/ Identify
    \/ Parse
    \/ EnrichItem
    \/ Return

Spec == Init /\ [][Next]_vars

-----------------------------------------------------------------------------
(* process_image over the candidates of any parser                         *)

\* a parser returns at most MaxItems candidates
MaxItems == 2

Candidates ==
    {[amount |-> Dec(10, 0), currency |-> "USD", date |-> "2025-05-29",
      description |-> "Coffee", category |-> "Caffeine"],
     [amount |-> Dec(10, 0), currency |-> "USD", date |-> "",
      description |-> "Kiosk", category |-> "Other",
      date_warning |-> date_warning("Yesterday")],
     [amount |-> Dec(1234, 2), currency |-> "EUR", date |-> "2025-05-29",
      description |-> "Shop", category |-> "Other", person |-> "Anna",
      beneficiary |-> "Bob"],
     [amount |-> Dec(4000, 0), currency |-> "HUF",
      description |-> "Langos", category |-> "Other", person |-> "Anna"],
     [amount |-> ZERO, currency |-> "USD", date |-> "2025-05-29",
      description |-> "Hello", category |-> "Other"],
     [amount |-> Dec(5, 0), currency |-> "GBP", date |-> "2025-05-29",
      description |-> "Tea", category |-> "Caffeine"],
     [description |-> "Note", category |-> "Other"]}

Tables ==
    {<<>>, [k \in {<<"2025-05-29", "USD">>} |-> Dec(11, 1)]}

InitEnrich ==
    /\ Started
    /\ image \in {"", "Hello", "ABN AMRO"}
    /\ fx_rates \in Tables

\* lines 110-116 with a parser that returns any candidates or raises
ParseAny ==
    /\ pc = "parse"
    /\ calls' = Append(calls, SelectParser(source))
    /\ \E raises \in BOOLEAN, data \in SeqsUpTo(Candidates, MaxItems) :
          LET handler == Catch("ValueError", final_results)
          IN  IF raises
              THEN /\ pc' = handler.pc
                   /\ caught' = handler.caught
                   /\ returned' = handler.returned
                   /\ UNCHANGED parsed_data
              ELSE /\ pc' = "enrich"
                   /\ parsed_data' = data
                   /\ UNCHANGED <<caught, returned>>
    /\ UNCHANGED <<image, text, source, final_results, idx, fx_rates, fx_log,
                   amount_str, amount_out,
                   arg, result, db, req>>

NextEnrich ==
    \/ ProcessImageOCR
    \/ Identify
    \/ ParseAny
    \/ EnrichItem
    \/ Return

SpecEnrich == InitEnrich /\ [][NextEnrich]_vars

-----------------------------------------------------------------------------
(* Properties of process_image over receipt texts                          *)

\* C1: every candidate process_image returns, whichever parser made it, has
\* an amount greater than 0 and a description that is not empty after
\* cleaning.
C1_PositiveAmountNonEmptyDescription ==
    \A i \in 1..Len(returned) :
        /\ returned[i].amount # NONE
        /\ DecLess(ZERO, returned[i].amount)
        /\ returned[i].description # ""

\* C3: when the OCR step fails or gives empty or white-space-only text,
\* process_image returns the empty list and has invoked neither the source
\* identifier nor a parser nor the FX lookup; a failing OCR step gives the
\* empty text.
C3_BlankTextReturnsEmpty ==
    /\ (pc # "start" /\ text # image) => text = ""
    /\ (pc # "start" /\ Strip(text) = "")
          => /\ pc = "done"
             /\ returned = <<>>
             /\ caught = ""
             /\ calls = <<"process_image_with_ocr">>

C3_Witness ==
    /\ pc = "done"
    /\ image = "Hello"
    /\ text = ""
    /\ returned = <<>>
    /\ calls = <<"process_image_with_ocr">>

C3_WitnessWhiteSpace ==
    /\ pc = "done"
    /\ text = " \n "
    /\ returned = <<>>
    /\ calls = <<"process_image_with_ocr">>

\* the text holds the substring, without regard to case
Holds(t, sub) == Contains(Lower(t), sub)

\* the text holds 'split bill' and one of the three Revolut words
RevolutText(t) ==
    /\ Holds(t, "split bill")
    /\ Holds(t, "points earned") \/ Holds(t, "kiosk") \/ Holds(t, "revolut")

\* the text holds one of the five ABN AMRO indicators
AbnText(t) ==
    \/ Holds(t, "abn amro")
    \/ Holds(t, "payment terminal")
    \/ Holds(t, "execution")
    \/ Holds(t, "tikkie payment request")
    \/ Holds(t, "nl50 abna")

\* identify_source has been called on text
Identified == Len(calls) >= 2 /\ calls[2] = "identify_source"

\* C4: the first match wins: a text with 'split bill' and one of 'points
\* earned', 'kiosk', 'revolut' is Revolut even when it holds ABN AMRO
\* indicators; otherwise a text with an indicator, 'execution' and 'from
\* account' is ABN_AMRO_SINGLE; a text with none of the five indicators is
\* Generic; the tests are substring tests without regard to case.
C4_FirstMatchWins ==
    Identified
    => /\ RevolutText(text) => source = "Revolut"
       /\ (/\ ~RevolutText(text)
           /\ AbnText(text)
           /\ Holds(text, "execution")
           /\ Holds(text, "from account")) => source = "ABN_AMRO_SINGLE"
       /\ (~RevolutText(text) /\ ~AbnText(text)) => source = "Generic"

C4_Witness ==
    /\ Identified
    /\ RevolutText(text)
    /\ AbnText(text)
    /\ source = "Revolut"

C4_WitnessAbnSingle ==
    /\ Identified
    /\ Holds(text, "execution")
    /\ Holds(text, "from account")
    /\ text # Lower(text)
    /\ source = "ABN_AMRO_SINGLE"

C4_WitnessGeneric ==
    /\ Identified
    /\ ~AbnText(text)
    /\ source = "Generic"

\* C5: for a text that is not Revolut, holds an ABN AMRO indicator and does
\* not hold both 'execution' and 'from account', identify_source returns
\* ABN_AMRO_LIST when the text holds more than one minus-sign amount with two
\* decimals and ABN_AMRO_SINGLE otherwise; for every text it returns one of
\* the four kinds and raises no exception.
C5_ListOrSingleFallback ==
    Identified
    => /\ caught = ""
       /\ source \in {"Revolut", "ABN_AMRO_SINGLE", "ABN_AMRO_LIST", "Generic"}
       /\ (/\ ~RevolutText(text)
           /\ AbnText(text)
           /\ ~(Holds(text, "execution") /\ Holds(text, "from account")))
          => source = IF CountMinusAmounts(Lower(text), 1) > 1
                      THEN "ABN_AMRO_LIST"
                      ELSE "ABN_AMRO_SINGLE"

\* C6: for every image whose text is not blank process_image runs one
\* parser, the one registered for the kind of the text, and returns that
\* parser's candidates, in the parser's order, none dropped and none added.
C6_ExactlyOneRegisteredParser ==
    (pc = "done" /\ Strip(text) # "")
    => /\ Cardinality({k \in 1..Len(calls) : calls[k] \in parsers}) = 1
       /\ \A k \in 1..Len(calls) : calls[k] \in parsers => calls[k] = source
       /\ parsed_data = RunParser(source, text)
       /\ Len(returned) = Len(parsed_data)
       /\ \A i \in 1..Len(returned) :
             \A k \in DOMAIN parsed_data[i] : returned[i][k] = parsed_data[i][k]

\* config.DEFAULT_CATEGORIES
DEFAULT_CATEGORIES ==
    {"Other", "Caffeine", "Household", "Car", "Snacks", "Office Lunch",
     "Brunch", "Clothing", "Dog", "Eating Out", "Groceries", "Restaurants"}

\* C13: every candidate the pipeline returns has a category of the fixed
\* vocabulary, the configured default category list, whether the Categorizer
\* assigned it or RevolutParser took it from a 'Category' label of the text.
C13_CategoryInVocabulary ==
    \A i \in 1..Len(returned) : returned[i].category \in DEFAULT_CATEGORIES

-----------------------------------------------------------------------------
(* Properties of process_image over the candidates of any parser           *)

\* C2: process_image never raises to its caller: when the OCR step, the
\* source identifier, the parser or the FX lookup raises, at whichever
\* candidate, the exception is caught and the empty list is returned, never
\* the candidates enriched so far.
C2_ExceptionGivesEmptyList ==
    /\ pc \in {"start", "identify", "parse", "enrich", "done"}
    /\ caught # "" => (pc = "done" /\ returned = <<>>)
    /\ (pc # "start" /\ text # image) => (pc = "done" /\ returned = <<>>)

C2_Witness ==
    /\ pc = "done"
    /\ caught = "OperationalError"
    /\ Len(final_results) = 1
    /\ Len(parsed_data) = 2
    /\ returned = <<>>

C2_WitnessIdentifier ==
    /\ pc = "done"
    /\ caught = "NameError"
    /\ returned = <<>>

C2_WitnessParser ==
    /\ pc = "done"
    /\ caught = "ValueError"
    /\ returned = <<>>

\* hundredths is amount / rate to the nearest hundredth
NearestHundredth(hundredths, amount, rate) ==
    LET c == DigitsVal(hundredths.m) * Pow10(2 - hundredths.e)
        n == 200 * DigitsVal(amount.m) * Pow10(rate.e)
        d == DigitsVal(rate.m) * Pow10(amount.e)
    IN  /\ hundredths.e <= 2
        /\ n - 2 * c * d <= d
        /\ 2 * c * d - n <= d

\* C7: for every candidate process_image returns, fx_rate is the rate the FX
\* lookup returned for the candidate's currency and date, today when the
\* date is absent or empty; amount_eur is amount / fx_rate rounded to two
\* decimals when both are there and not zero, and 0.0 otherwise (10.0 USD at
\* 1.08 is 9.26); no rate of zero is divided by.
C7_RateAndConversion ==
    \A i \in 1..Len(returned) :
        LET item == parsed_data[i]
            out == returned[i]
            asked == fx_log[i]
            currency == IF "currency" \in DOMAIN item THEN item.currency
                        ELSE "EUR"
            day == IF "date" \in DOMAIN item /\ item.date # "" THEN item.date
                   ELSE Today
            convert == /\ "amount" \in DOMAIN item
                       /\ item.amount # ZERO
                       /\ out.fx_rate # ZERO
        IN  /\ out.fx_rate = asked.rate
            /\ asked.currency = currency
            /\ currency # "EUR" => asked.date = day
            /\ (asked.via \in {"cache", "api"})
                  => fx_rates[<<day, currency>>] = out.fx_rate
            /\ asked.via = "fallback"
                  => out.fx_rate = (IF currency = "USD" THEN Dec(108, 2)
                                    ELSE IF currency = "HUF" THEN Dec(400, 0)
                                    ELSE ONE)
            /\ asked.via = "eur" => (currency = "EUR" /\ out.fx_rate = ONE)
            /\ out.fx_rate # ZERO
            /\ convert => NearestHundredth(out.amount_eur, item.amount,
                                           out.fx_rate)
            /\ ~convert => out.amount_eur = ZERO

C7_Witness ==
    /\ pc = "done"
    /\ \E i \in 1..Len(returned) :
          /\ {"amount", "currency"} \subseteq DOMAIN parsed_data[i]
          /\ parsed_data[i].amount = Dec(10, 0)
          /\ parsed_data[i].currency = "USD"
          /\ returned[i].fx_rate = Dec(108, 2)
          /\ returned[i].amount_eur = Dec(926, 2)

C7_WitnessToday ==
    /\ pc = "done"
    /\ \E i \in 1..Len(returned) :
          /\ "date" \notin DOMAIN parsed_data[i]
          /\ "currency" \in DOMAIN parsed_data[i]
          /\ parsed_data[i].currency = "HUF"
          /\ fx_log[i].date = Today
          /\ returned[i].amount_eur = Dec(10, 0)

C7_WitnessZero ==
    /\ pc = "done"
    /\ \E i \in 1..Len(returned) :
          /\ "amount" \in DOMAIN parsed_data[i]
          /\ parsed_data[i].amount = ZERO
          /\ returned[i].fx_rate = Dec(125, 2)
          /\ returned[i].amount_eur = ZERO

\* C8: enrichment adds fx_rate and amount_eur and, when they are absent, the
\* default person and the empty beneficiary, and nothing else: the amount,
\* currency, date, description, category and date_warning of the parser are
\* what they were, and so are a person and a beneficiary the parser has set.
C8_EnrichmentOnlyAdds ==
    \A i \in 1..Len(returned) :
        LET item == parsed_data[i]
            out == returned[i]
        IN  /\ DOMAIN out = DOMAIN item \cup {"fx_rate", "amount_eur", "person",
                                              "beneficiary"}
            /\ \A k \in DOMAIN item \ {"fx_rate", "amount_eur"} :
                  out[k] = item[k]
            /\ "person" \notin DOMAIN item => out.person = "Kozos"
            /\ "beneficiary" \notin DOMAIN item => out.beneficiary = ""

C8_Witness ==
    /\ pc = "done"
    /\ \E i \in 1..Len(returned) :
          /\ "person" \in DOMAIN parsed_data[i]
          /\ "beneficiary" \notin DOMAIN parsed_data[i]
          /\ returned[i].person = "Anna"
          /\ returned[i].beneficiary = ""
    /\ \E i \in 1..Len(returned) :
          /\ "person" \notin DOMAIN parsed_data[i]
          /\ "date_warning" \in DOMAIN parsed_data[i]
          /\ returned[i].person = "Kozos"
          /\ returned[i].date_warning = parsed_data[i].date_warning

-----------------------------------------------------------------------------
(* parse_european_amount applied to bounded inputs                         *)

\* an amount string is at most MaxPieces pieces of AmountPieces
MaxPieces == 5

AmountPieces == {"1", "55", "524", ".", ",", "-@"}

AmountStrings == {JoinWith(ps, "") : ps \in SeqsUpTo(AmountPieces, MaxPieces)}

Idle ==
    /\ image = ""
    /\ text = ""
    /\ source = ""
    /\ parsed_data = <<>>
    /\ final_results = <<>>
    /\ idx = 0
    /\ returned = <<>>
    /\ caught = ""
    /\ calls = <<>>
    /\ fx_rates = <<>>
    /\ fx_log = <<>>

InitAmount ==
    /\ pc = "amount_call"
    /\ amount_str \in AmountStrings
    /\ amount_out = NONE
    /\ arg = ""
    /\ result = ""
    /\ db = <<>>
    /\ req = <<>>
    /\ Idle

ParseAmount ==
    /\ pc = "amount_call"
    /\ amount_out' = parse_european_amount(amount_str)
    /\ pc' = "amount_done"
    /\ UNCHANGED <<image, text, source, parsed_data, final_results, idx,
                   returned, caught, calls, fx_rates, fx_log, amount_str,
                   arg, result, db, req>>

NextAmount == ParseAmount

SpecAmount == InitAmount /\ [][NextAmount]_vars

\* the digits of s, in order
DigitsOf(s) == RemoveChars(s, {".", ",", "-", EURO, "$", POUND, " "})

\* s is d{1,3}(<t>ddd)+<d>dd: thousands separator t, decimal separator d
Grouped(s, t, d) ==
    LET n == Len(s)
        first == Find(s, t)
    IN  /\ n >= 8
        /\ first \in 2..4
        /\ Ch(s, n - 2) = d
        /\ (n - 2 - first) % 4 = 0
        /\ \A i \in 1..n :
              IF i = n - 2 THEN TRUE
              ELSE IF i >= first /\ i < n - 2 /\ (i - first) % 4 = 0
              THEN Ch(s, i) = t
              ELSE IsDigit(Ch(s, i))

\* C9: a string with both '.' and ',' is read with the separator occurring
\* last as the decimal point and every occurrence of the other one stripped;
\* so a well-formed European X.YYY,ZZ and a well-formed US X,YYY.ZZ string
\* both give the value X YYY.ZZ.
C9_LastSeparatorIsDecimal ==
    (pc = "amount_done" /\ Contains(amount_str, ".") /\ Contains(amount_str, ","))
    => LET c == CleanAmount(amount_str)
           lastIsComma == RFind(c, ",") > RFind(c, ".")
           other == IF lastIsComma THEN "." ELSE ","
           stripped == RemoveChars(c, {other})
       IN  /\ amount_out = FloatOf(IF lastIsComma
                                   THEN Replace(stripped, ",", ".")
                                   ELSE stripped)
           /\ (Grouped(c, ".", ",") \/ Grouped(c, ",", "."))
                 => amount_out = DecStr(DigitsOf(c), 2)

C9_Witness ==
    /\ pc = "amount_done"
    /\ amount_str = "1.524,55"
    /\ amount_out = Dec(152455, 2)

C9_WitnessUS ==
    /\ pc = "amount_done"
    /\ amount_str = "1,524.55"
    /\ amount_out = Dec(152455, 2)

\* only digits and commas, at least one comma
OnlyCommas(c) ==
    /\ Contains(c, ",")
    /\ \A i \in 1..Len(c) : IsDigit(Ch(c, i)) \/ Ch(c, i) = ","

\* C10: a string with ',' and no '.' is read with the comma as the decimal
\* point when exactly two digits follow it ('6,50' is 6.50), and with the
\* commas stripped as thousands separators otherwise ('1,524' is 1524); a
\* well-formed string (digits, one comma, digits) yields a value either way.
C10_CommaOnly ==
    (pc = "amount_done" /\ OnlyCommas(CleanAmount(amount_str)))
    => LET c == CleanAmount(amount_str)
           p == RFind(c, ",")
           after == From(c, p + 1)
           one == Find(c, ",") = p
           digits == DigitsOf(c)
       IN  /\ (Len(after) = 2 /\ one)
                 => amount_out = DecStr(digits, 2)
           /\ (Len(after) # 2 /\ digits # "")
                 => amount_out = DecStr(digits, 0)
           /\ (one /\ p > 1 /\ p < Len(c)) => amount_out # NONE

C10_Witness ==
    /\ pc = "amount_done"
    /\ amount_str = "1,55"
    /\ amount_out = Dec(155, 2)

C10_WitnessThousands ==
    /\ pc = "amount_done"
    /\ amount_str = "1,524"
    /\ amount_out = Dec(1524, 0)

-----------------------------------------------------------------------------
(* parse_european_amount applied to malformed inputs                       *)

MaxLiterals == 4

LiteralPieces == {"1", "e", "nan", "inf", "x", "_", "+", ".", ",", "-@", " "}

LiteralStrings ==
    {JoinWith(ps, "") : ps \in SeqsUpTo(LiteralPieces, MaxLiterals)}

InitLiteral ==
    /\ pc = "amount_call"
    /\ amount_str \in LiteralStrings
    /\ amount_out = NONE
    /\ arg = ""
    /\ result = ""
    /\ db = <<>>
    /\ req = <<>>
    /\ Idle

SpecLiteral == InitLiteral /\ [][NextAmount]_vars

\* what is left of s without currency glyphs, minus signs and white space
Residue(s) == RemoveChars(s, {EURO, "$", POUND, "-", " ", "\t", "\n"})

\* digits and separators only, at least one digit
PlainDecimal(r) ==
    /\ \E i \in 1..Len(r) : IsDigit(Ch(r, i))
    /\ \A i \in 1..Len(r) : IsDigit(Ch(r, i)) \/ Ch(r, i) \in {".", ","}

\* C11: parse_european_amount never raises and returns None for every
\* malformed input: the empty string, and every string whose residue without
\* currency glyphs, minus signs and white space holds a letter or is
\* otherwise not a plain decimal number.
C11_MalformedGivesNone ==
    /\ pc \in {"amount_call", "amount_done"}
    /\ (pc = "amount_done" /\ ~PlainDecimal(Residue(amount_str)))
          => amount_out = NONE

-----------------------------------------------------------------------------
(* ExpenseParser helpers and the parsers called on their own               *)

\* the state of process_image but source, and of parse_european_amount
others ==
    <<image, text, parsed_data, final_results, idx, returned, caught, calls,
      fx_rates, fx_log, amount_str, amount_out, db, req>>

\* everything but pc, arg and result: untouched by the helpers
rest == <<source, others>>

Quiet ==
    /\ amount_str = ""
    /\ amount_out = NONE
    /\ db = <<>>
    /\ req = <<>>
    /\ Idle

\* the texts of at most n of the pieces, joined by sep
TextsOf(pieces, n, sep) == {JoinWith(ps, sep) : ps \in SeqsUpTo(pieces, n)}

-----------------------------------------------------------------------------
(* smart_categorize applied to bounded texts                               *)

MaxWords == 2

CategoryWords ==
    {"Pizzeria", "EETCAFE", "Albert Heijn", "Kiosk", "Cafe", "koffie",
     "Esso", "Taxi", "bus", "Gym", "Shop", "Business"}

InitCategorize ==
    /\ pc = "categorize_call"
    /\ arg \in TextsOf(CategoryWords, MaxWords, " ")
    /\ result = ""
    /\ Quiet

Categorize ==
    /\ pc = "categorize_call"
    /\ result' = smart_categorize(arg)
    /\ pc' = "categorize_done"
    /\ UNCHANGED <<arg, rest>>

NextCategorize == Categorize

SpecCategorize == InitCategorize /\ [][NextCategorize]_vars

\* the categories of the table, in table order
CategoryOrder ==
    <<"Restaurants", "Groceries", "Household", "Caffeine", "Car", "Transport",
      "Sport">>

\* the categories of which a keyword occurs in the lower-cased text
Matching(t) ==
    {c \in 1..Len(category_map) :
        \E k \in 1..Len(category_map[c][2]) : Holds(t, category_map[c][2][k])}

\* C12: smart_categorize returns the first category, in table order, with a
\* keyword occurring in the lower-cased text, and 'Other' when no keyword
\* occurs: one matching category gives that category, several give the
\* earliest in table order.
C12_FirstCategoryInTableOrder ==
    /\ CategoryOrder = [c \in 1..Len(category_map) |-> category_map[c][1]]
    /\ pc = "categorize_done"
       => /\ Matching(arg) = {} => result = "Other"
          /\ \A c \in Matching(arg) :
                (\A d \in Matching(arg) : c <= d) => result = CategoryOrder[c]

C12_Witness ==
    /\ pc = "categorize_done"
    /\ Holds(arg, "cafe")
    /\ Holds(arg, "kiosk")
    /\ Cardinality(Matching(arg)) = 2
    /\ result = "Household"

C12_WitnessOne ==
    /\ pc = "categorize_done"
    /\ Matching(arg) = {6}
    /\ result = "Transport"

C12_WitnessOther ==
    /\ pc = "categorize_done"
    /\ arg # ""
    /\ Matching(arg) = {}
    /\ result = "Other"

-----------------------------------------------------------------------------
(* clean_description applied to bounded descriptions                       *)

MaxTokens == 3

NoiseTokens ==
    {"BEA,", "bea, ", ",PAS011", ",pas7", ",", " ", "Shop", "SAPN",
     "Google Pay"}

InitClean ==
    /\ pc = "clean_call"
    /\ arg \in TextsOf(NoiseTokens, MaxTokens, "")
    /\ result = ""
    /\ Quiet

Clean ==
    /\ pc = "clean_call"
    /\ result' = clean_description(arg)
    /\ pc' = "clean_done"
    /\ UNCHANGED <<arg, rest>>

NextClean == Clean

SpecClean == InitClean /\ [][NextClean]_vars

\* s holds ',PAS' followed by a digit, without regard to case
HoldsPasCode(s) ==
    \E i \in 1..Len(s) :
        Lower(Sub(s, i, i + 3)) = ",pas" /\ IsDigit(Ch(s, i + 4))

\* C14: clean_description never raises, returns empty input unchanged, and
\* for every other description returns the trimmed remainder without the
\* noise tokens: no ',PAS<digits>' code in it, no 'BEA,' prefix, no comma at
\* the end, so that cleaning the result again returns it unchanged.
C14_CleanedHasNoNoise ==
    /\ pc \in {"clean_call", "clean_done"}
    /\ pc = "clean_done"
       => /\ arg = "" => result = ""
          /\ result = Strip(result)
          /\ ~HoldsPasCode(result)
          /\ Lower(Sub(result, 1, 4)) # "bea,"
          /\ Ch(result, Len(result)) # ","
          /\ clean_description(result) = result

-----------------------------------------------------------------------------
(* The four parsers called on their own                                    *)

\* parser.parse(arg) of the parser registered for the kind has returned
Returned(kind) ==
    /\ source' = kind
    /\ result' = RunParser(SelectParser(kind), arg)
    /\ pc' = "parser_done"
    /\ UNCHANGED <<arg, others>>

ParseRevolut ==
    /\ pc = "parser_call"
    /\ Returned("Revolut")

ParseAbnSingle ==
    /\ pc = "parser_call"
    /\ Returned("ABN_AMRO_SINGLE")

ParseAbnList ==
    /\ pc = "parser_call"
    /\ Returned("ABN_AMRO_LIST")

ParseGeneric ==
    /\ pc = "parser_call"
    /\ Returned("Generic")

\* the texts of the head lines followed by at most n of the lines
TextsAfter(head, lines, n) ==
    {JoinWith(head \o ls, "\n") : ls \in SeqsUpTo(lines, n)}

InitParser(texts) ==
    /\ pc = "parser_call"
    /\ arg \in texts
    /\ result = <<>>
    /\ Quiet

-----------------------------------------------------------------------------
(* Dates and date warnings of the four parsers                             *)

MaxDateLines == 2

DateLines ==
    {"Yesterday 10:15", "Vanmorgen", "May 29", "Feb 30", "14:02",
     "Thursday 29 May 2025", "Shop - 4,50", "Execution"}

InitDates ==
    InitParser(TextsAfter(<<"-@6,50", "Coffee Bar">>, DateLines, MaxDateLines))

NextDates == ParseRevolut \/ ParseAbnSingle \/ ParseAbnList \/ ParseGeneric

SpecDates == InitDates /\ [][NextDates]_vars

\* the relative-date phrases
RelativePhrases ==
    {"today", "yesterday", "vandaag", "gisteren", "this morning", "vanmorgen"}

\* d is shaped YYYY-MM-DD
IsoShaped(d) ==
    /\ Len(d) = 10
    /\ \A i \in 1..10 : IF i \in {5, 8} THEN Ch(d, i) = "-"
                        ELSE IsDigit(Ch(d, i))

\* C15: a RevolutParser candidate of a text with a relative-date phrase has
\* the empty date and a date_warning naming a phrase of the text; of any
\* other text it has a non-empty YYYY-MM-DD date of the current year and no
\* date_warning. For all four parsers a candidate has an empty date if and
\* only if it carries a date_warning.
C15_RelativeDateGivesWarning ==
    pc = "parser_done"
    => \A i \in 1..Len(result) :
          LET c == result[i]
              warned == "date_warning" \in DOMAIN c
          IN  /\ c.date = "" <=> warned
              /\ source = "Revolut"
                 => IF \E phrase \in RelativePhrases : Holds(arg, phrase)
                    THEN /\ c.date = ""
                         /\ warned
                         /\ \E phrase \in RelativePhrases :
                               /\ Holds(arg, phrase)
                               /\ Contains(c.date_warning,
                                           "'" \o phrase \o "'")
                    ELSE /\ IsoShaped(c.date)
                         /\ Sub(c.date, 1, 4) = "2025"
                         /\ ~warned

C15_Witness ==
    /\ pc = "parser_done"
    /\ source = "Revolut"
    /\ Holds(arg, "yesterday")
    /\ Len(result) = 1
    /\ result[1].date = ""
    /\ result[1].date_warning
          = "Original showed 'yesterday' - please verify date"

C15_WitnessParsed ==
    /\ pc = "parser_done"
    /\ source = "Revolut"
    /\ Len(result) = 1
    /\ result[1].date = "2025-05-29"
    /\ "date_warning" \notin DOMAIN result[1]

C15_WitnessOthers ==
    /\ pc = "parser_done"
    /\ source = "ABN_AMRO_LIST"
    /\ Holds(arg, "yesterday")
    /\ Len(result) = 1
    /\ result[1].date = "2025-06-15"
    /\ "date_warning" \notin DOMAIN result[1]

-----------------------------------------------------------------------------
(* The description of RevolutParser                                        *)

MaxFollowing == 4

FollowingLines == {"10:15", "Today", "12,00", "Coffee Bar", "BEA, Kiosk 7"}

InitMerchant ==
    InitParser(TextsAfter(<<"-@6,50">>, FollowingLines, MaxFollowing))

NextMerchant == ParseRevolut

SpecMerchant == InitMerchant /\ [][NextMerchant]_vars

\* the line is no timestamp, does not hold 'today' and is not made of
\* digits and symbols only
Qualifies(line) ==
    /\ ~StartsWithTime(line)
    /\ ~Holds(line, "today")
    /\ ~OnlyAmountChars(line)

\* C16: RevolutParser takes as description the first line after the first
\* non-empty line that is no timestamp, does not hold 'today' and is not
\* purely numeric or symbolic, wherever it occurs among the following lines:
\* a text with an amount and such a line yields one candidate with that line,
\* cleaned, as description.
C16_FirstQualifyingLine ==
    pc = "parser_done"
    => LET lines == StrippedLines(arg)
           qualifying == {k \in 2..Len(lines) : Qualifies(lines[k])}
       IN  (FirstAmount(lines[1]) # "" /\ qualifying # {})
           => /\ Len(result) = 1
              /\ result[1].description
                    = clean_description(lines[MinOf(qualifying)])

-----------------------------------------------------------------------------
(* The amount of ABNAmroSingleParser                                       *)

MaxAmountLines == 2

AmountLines ==
    {"@6,50", "12,50 @", "@1.524,55", "@ 7", "Balance 0,00",
     "Your total -3,20", "9,99", "250000,00", "@0,00"}

InitAbnAmount ==
    InitParser(TextsAfter(<<"Albert Heijn">>, AmountLines, MaxAmountLines))

NextAbnAmount == ParseAbnSingle

SpecAbnAmount == InitAbnAmount /\ [][NextAbnAmount]_vars

\* the characters of a written amount
NumberChars == DigitChars \cup {".", ","}

\* the written amount starting at i: the longest run of digits and separators
NumberAt(s, i) == SubSeq(s, i, RunEnd(s, i, NumberChars) - 1)

\* a written amount starts at i
NumberStarts(s, i) ==
    /\ IsDigit(Ch(s, i))
    /\ Ch(s, i - 1) \notin NumberChars

\* the position before i, an optional minus sign and white space skipped
BeforeNumber(s, i) ==
    LET j == IF Ch(s, i - 1) = "-" THEN i - 1 ELSE i
    IN  CHOOSE k \in 0..j - 1 :
            /\ \A m \in k + 1..j - 1 : IsSpace(Ch(s, m))
            /\ ~IsSpace(Ch(s, k))

\* the written amount starting at i has the glyph before or after it
GlyphAdjacent(s, i) ==
    \/ Ch(s, BeforeNumber(s, i)) = EURO
    \/ Ch(s, SkipSpace(s, RunEnd(s, i, NumberChars))) = EURO

\* (a) the first written amount next to a glyph that is in range
FirstGlyphAmount(s) ==
    LET hits == {i \in 1..Len(s) :
                    /\ NumberStarts(s, i)
                    /\ GlyphAdjacent(s, i)
                    /\ InRange(parse_european_amount(NumberAt(s, i)))}
    IN  IF hits = {} THEN NONE
        ELSE parse_european_amount(NumberAt(s, MinOf(hits)))

\* (b) the first amount on a line holding 'balance', 'charged', 'your total'
FirstContextAmount(lines) ==
    LET hits == {k \in 1..Len(lines) :
                    /\ \/ Holds(lines[k], "balance")
                       \/ Holds(lines[k], "charged")
                       \/ Holds(lines[k], "your total")
                    /\ FindAllPattern(4, lines[k], 1) # <<>>}
    IN  IF hits = {} THEN NONE
        ELSE parse_european_amount(FindAllPattern(4, lines[MinOf(hits)], 1)[1])

\* (c) the first amount-shaped substring that is in range
FirstAmountInRange(s) ==
    LET found == FindAllPattern(4, s, 1)
        hits == {k \in 1..Len(found) : InRange(parse_european_amount(found[k]))}
    IN  IF hits = {} THEN NONE ELSE parse_european_amount(found[MinOf(hits)])

\* C17: ABNAmroSingleParser takes the amount of the first strategy that
\* finds one: (a) the first amount next to a glyph with magnitude in
\* [0.01, 100000], (b) the first amount on a line holding 'balance',
\* 'charged' or 'your total', (c) the first amount-shaped substring with
\* magnitude in that range; when none finds an amount there is no candidate.
C17_FirstStrategyThatSucceeds ==
    pc = "parser_done"
    => LET lines == StrippedLines(arg)
           full_text == JoinWith(lines, "\n")
           a == FirstGlyphAmount(full_text)
           b == FirstContextAmount(lines)
           c == FirstAmountInRange(full_text)
           chosen == IF a # NONE THEN a ELSE IF b # NONE THEN b ELSE c
       IN  /\ chosen = NONE => result = <<>>
           /\ \A i \in 1..Len(result) : result[i].amount = chosen

-----------------------------------------------------------------------------
(* The description of ABNAmroSingleParser                                  *)

MaxDescriptionLines == 2

DescriptionLines ==
    {"@6,50", "10:15", "10:15 Albert Heijn", "AH", "Payment terminal",
     "Jumbo 6,50", "29 May 2025", "Mayfair Shop", "Jumbo"}

InitAbnDescription ==
    InitParser(TextsAfter(<<>>, DescriptionLines, MaxDescriptionLines))

NextAbnDescription == ParseAbnSingle

SpecAbnDescription == InitAbnDescription /\ [][NextAbnDescription]_vars

\* the line is a timestamp and nothing else
BareTimestamp(line) == StartsWithTime(line) /\ Len(line) = 5

\* the line passes the six tests of the description
QualifiesAsDescription(line, amount, trx_date) ==
    /\ \A k \in 1..Len(known_junk) : ~Holds(line, known_junk[k])
    /\ ~BareTimestamp(line)
    /\ amount # NONE => ~Contains(line, FormatComma(amount))
    /\ trx_date # NoneStr => ~Holds(line, MonthNameOf(trx_date))
    /\ HasLetter(line)
    /\ ~OnlyNumberChars(line)

\* C18: the description of ABNAmroSingleParser is the first line, in text
\* order, that holds no junk phrase, is no bare timestamp, does not hold the
\* formatted amount nor the resolved month name, holds a letter and is not
\* made of digits and currency symbols only; when no line qualifies, or no
\* amount was found, there is no candidate.
C18_FirstQualifyingDescription ==
    pc = "parser_done"
    => LET lines == StrippedLines(arg)
           full_text == JoinWith(lines, "\n")
           amount == extract_amount_robust(full_text, lines)
           trx_date == extract_date(full_text)
           qualifying ==
               {k \in 1..Len(lines) :
                   QualifiesAsDescription(lines[k], amount, trx_date)}
       IN  IF amount = NONE \/ qualifying = {}
           THEN result = <<>>
           ELSE /\ Len(result) = 1
                /\ result[1].description
                      = clean_description(lines[MinOf(qualifying)])

-----------------------------------------------------------------------------
(* The date of ABNAmroSingleParser                                         *)

MaxAbnDateLines == 2

AbnDateLines ==
    {"12 mei 2025", "3 maart 2025", "29 May 2025", "Thursday 29 May 2025",
     "Execution", "28 april 2025", "31 June 2025", "Friday"}

InitAbnDate ==
    InitParser(TextsAfter(<<"@6,50", "Albert Heijn">>, AbnDateLines,
                          MaxAbnDateLines))

NextAbnDate == ParseAbnSingle

SpecAbnDate == InitAbnDate /\ [][NextAbnDate]_vars

\* the number of the month of an English or a Dutch name, 0 when it is none
MonthOfEitherName(name) ==
    LET l == Lower(name)
        hits == {k \in 1..12 : month_names[k] = l \/ dutch_month_names[k] = l}
    IN  IF hits = {} THEN 0 ELSE CHOOSE k \in hits : TRUE

\* the calendar date of <<day, month name, year>>, NONE when it is none
CalendarDate(g) ==
    IF g = <<>> THEN NONE
    ELSE MakeDate(DayField(g[1]), MonthOfEitherName(g[2]), YearField(g[3]))

\* the last three words of the line after 'Execution', <<>> without them
ExecutionWords(s) ==
    LET hits == {i \in 1..Len(s) : ExecutionBlockAt(s, i) # ""}
        parts == IF hits = {} THEN <<>>
                 ELSE Words(Strip(ExecutionBlockAt(s, MinOf(hits))))
    IN  IF Len(parts) < 3 THEN <<>>
        ELSE SubSeq(parts, Len(parts) - 2, Len(parts))

\* the groups of the first match of date pattern n, <<>> without a match
FirstDateMatch(n, s) ==
    LET hits == {i \in 1..Len(s) : DatePatternAt(n, s, i) # <<>>}
    IN  IF hits = {} THEN <<>> ELSE DatePatternAt(n, s, MinOf(hits))

-----------------------------------------------------------------------------
(* The candidates of ABNAmroListParser                                     *)

MaxListLines == 3

ListLines ==
    {"Thursday 29 May 2025", "Coffee Shop - 4,50", "Supermarket - 23,10",
     "Friday - 1,00", "Friday 30 May 2025", "Thursday 31 June 2025",
     "Shop -1.524,55", "Balance 12,00"}

InitAbnList == InitParser(TextsAfter(<<>>, ListLines, MaxListLines))

NextAbnList == ParseAbnList

SpecAbnList == InitAbnList /\ [][NextAbnList]_vars

\* s is digits, a comma and two digits
TwoDecimals(s) ==
    /\ Len(s) >= 4
    /\ Ch(s, Len(s) - 2) = ","
    /\ \A k \in 1..Len(s) : k # Len(s) - 2 => IsDigit(Ch(s, k))

\* the places of a dash of the line that follows white space and is followed
\* by nothing but an amount with two decimals
Dashes(line) ==
    {i \in 2..Len(line) :
        /\ Ch(line, i) = "-"
        /\ IsSpace(Ch(line, i - 1))
        /\ TwoDecimals(Strip(From(line, i + 1)))}

\* the line reads '<description> - <amount>' and the description is more
\* than the name of a day of the week
TransactionLine(line) ==
    \E i \in Dashes(line) :
        \A k \in 1..7 :
            weekday_names[k] # Lower(Strip(SubSeq(line, 1, i - 1)))

\* the amount the line shows after its dash
ShownAmount(line) ==
    LET i == CHOOSE i \in Dashes(line) : TRUE
    IN  parse_european_amount(Strip(From(line, i + 1)))

\* the line is a weekday, a day, a month and a year of the calendar
AnchorLine(line) == StrptimeADBY(line) # NONE

\* C20: ABNAmroListParser emits exactly one candidate per line of the form
\* '<description> - <amount with two decimals>' whose description is not just
\* a weekday name, in the order of the lines and with the amount of the line,
\* and every candidate carries the same date: that of the (first) weekday +
\* day + month + year anchor line, today's date when the text has none.
C20_OneCandidatePerTransactionLine ==
    (pc = "parser_done" /\ source = "ABN_AMRO_LIST")
    => LET lines == StrippedLines(arg)
           shown == SelectSeq(lines, TransactionLine)
           anchors == {k \in 1..Len(lines) : AnchorLine(lines[k])}
           anchored == IF anchors = {} THEN Today
                       ELSE IsoDate(StrptimeADBY(lines[MinOf(anchors)]))
       IN  /\ Len(result) = Len(shown)
           /\ \A k \in 1..Len(result) :
                 /\ result[k].amount = ShownAmount(shown[k])
                 /\ result[k].date = anchored
                 /\ result[k].currency = "EUR"

\* the example of the specification: two candidates dated 2025-05-29
C20_Witness ==
    /\ pc = "parser_done"
    /\ source = "ABN_AMRO_LIST"
    /\ arg = "Thursday 29 May 2025\nCoffee Shop - 4,50\nSupermarket - 23,10"
    /\ Len(result) = 2
    /\ result[1].date = "2025-05-29"
    /\ result[2].date = "2025-05-29"
    /\ result[1].amount = parse_european_amount("4,50")
    /\ result[2].amount = parse_european_amount("23,10")
    /\ result[1].amount # result[2].amount
    /\ result[1].category = "Caffeine"

\* a text without an anchor line: the candidate is dated today
C20_WitnessToday ==
    /\ pc = "parser_done"
    /\ source = "ABN_AMRO_LIST"
    /\ arg = "Friday - 1,00\nThursday 31 June 2025\nCoffee Shop - 4,50"
    /\ Len(result) = 1
    /\ result[1].date = Today

-----------------------------------------------------------------------------
(* The candidate of GenericParser                                          *)

MaxGenericLines == 2

GenericLines ==
    {"Shop", "Scanned Expense", "BEA, Scanned Expense", " ", "Total 12,34",
     "Cola 99,00",
     "TOTAAL: 5.00", "12/05/2025", "12-05-2025", "12.05.2025", "31/02/2025",
     "Bedrag 1.524,55", "amount due"}

InitGeneric == InitParser(TextsAfter(<<>>, GenericLines, MaxGenericLines))

NextGeneric == ParseGeneric

SpecGeneric == InitGeneric /\ [][NextGeneric]_vars

\* the pairs <<i, a>> of a label at i and an amount-shaped substring at a,
\* with nothing but colons and white space in between, and some of it
LabelledAmounts(t) ==
    {p \in (1..Len(t)) \X (1..Len(t)) :
        \E k \in 1..Len(total_labels) :
            LET j == p[1] + Len(total_labels[k])
            IN  /\ Lower(Sub(t, p[1], j - 1)) = total_labels[k]
                /\ p[2] > j
                /\ \A x \in j..(p[2] - 1) : Ch(t, x) \in {":", " ", "\n", "\t"}
                /\ AmountAt(t, p[2]) > 0}

\* the value of the amount-shaped substring at a
AmountValue(t, a) == parse_european_amount(SubSeq(t, a, AmountAt(t, a) - 1))

\* the values of the amount-shaped substrings of the text
AmountValues(t) ==
    LET found == FindAllAmounts(t, 1)
    IN  {parse_european_amount(found[k]) : k \in 1..Len(found)}

\* C21: GenericParser uses the amount that follows the first label total,
\* totaal, amount or bedrag whenever a labelled amount exists, even if a
\* larger amount-shaped substring appears elsewhere; only without a labelled
\* amount does it take the maximum of all amount-shaped substrings, and 0 when
\* there are none.
C21_LabelledBeforeLargest ==
    (pc = "parser_done" /\ source = "Generic" /\ result # <<>>)
    => LET labelled == LabelledAmounts(arg)
           first == CHOOSE p \in labelled :
                        \A q \in labelled : p[1] <= q[1]
           values == AmountValues(arg)
           amount == result[1].amount
       IN  IF labelled # {} THEN amount = AmountValue(arg, first[2])
           ELSE IF values = {} THEN amount = ZERO
           ELSE /\ amount \in values
                /\ \A v \in values : ~DecLess(amount, v)

\* a labelled total with a larger amount on another line
C21_Witness ==
    /\ pc = "parser_done"
    /\ source = "Generic"
    /\ arg = "Cola 99,00\nTotal 12,34"
    /\ Len(result) = 1
    /\ result[1].amount = parse_european_amount("12,34")
    /\ DecLess(result[1].amount, parse_european_amount("99,00"))

\* no label: the largest amount
C21_WitnessLargest ==
    /\ pc = "parser_done"
    /\ source = "Generic"
    /\ arg = "Cola 99,00\n12.05.2025"
    /\ Len(result) = 1
    /\ result[1].amount = parse_european_amount("99,00")

\* no amount at all: 0
C21_WitnessZero ==
    /\ pc = "parser_done"
    /\ source = "Generic"
    /\ arg = "Shop\namount due"
    /\ Len(result) = 1
    /\ result[1].amount = ZERO

\* C22: GenericParser returns an empty sequence for a text with no non-empty
\* line (the description is still the sentinel and the amount is zero); a
\* candidate combining 'Scanned Expense' with amount 0.0 is never emitted;
\* for every other text it returns exactly one candidate whose description
\* is the cleaned first non-empty line.
C22_SentinelWithZeroSuppressed ==
    (pc = "parser_done" /\ source = "Generic")
    => LET lines == StrippedLines(arg)
       IN  /\ \A k \in 1..Len(result) :
                 ~ /\ result[k].description = "Scanned Expense"
                   /\ result[k].amount = ZERO
           /\ IF lines = <<>> THEN result = <<>>
              ELSE /\ Len(result) = 1
                   /\ result[1].description = clean_description(lines[1])

\* the date of the D<sep>M<sep>Y substring read as day, month and year,
\* whatever its separators; NONE when it is no date of the calendar
DayMonthYear(d_str) ==
    LET parts == SplitOn(Replace(Replace(d_str, "-", "/"), ".", "/"), "/")
    IN  IF Len(parts) = 3
        THEN MakeDate(DayField(parts[1]), MonthField(parts[2]),
                      YearField(parts[3]))
        ELSE NONE

\* C23: GenericParser dates the candidate with the first substring of the
\* form D<sep>M<sep>Y, for every separator '/', '-' and '.', parsed as day,
\* month and year ('12/05/2025', '12-05-2025' and '12.05.2025' all give
\* 2025-05-12); without such a substring, or when it is not a valid date, the
\* candidate is dated today.
C23_DateForEverySeparator ==
    (pc = "parser_done" /\ source = "Generic")
    => LET date_match == NumericDate(arg)
           parsed_date == DayMonthYear(date_match)
       IN  \A k \in 1..Len(result) :
              result[k].date = IF date_match # "" /\ parsed_date # NONE
                               THEN IsoDate(parsed_date)
                               ELSE Today

-----------------------------------------------------------------------------
(* Amounts written with a thousands separator                              *)

MaxGroupedLines == 2

GroupedLines ==
    {"@1.524,55", "1.524,55", "-@2.000,00", "Coffee Bar", "Total 1.524,55",
     "@6,50"}

InitGrouped == InitParser(TextsAfter(<<>>, GroupedLines, MaxGroupedLines))

NextGrouped == ParseRevolut \/ ParseAbnSingle \/ ParseGeneric

SpecGrouped == InitGrouped /\ [][NextGrouped]_vars

\* the values of the amounts written in the text, each read as a whole
WrittenAmounts(t) ==
    {parse_european_amount(NumberAt(t, i)) :
        i \in {j \in 1..Len(t) : NumberStarts(t, j)}} \ {NONE}

-----------------------------------------------------------------------------
(* OCRProcessingService._get_fx_rate, one await at a time                  *)

MaxLookups == 2

\* everything but db, req and fx_log: untouched by the FX lookups
fx_rest ==
    <<pc, image, text, source, parsed_data, final_results, idx, returned,
      caught, calls, fx_rates, amount_str, amount_out, arg, result>>

\* what data.get('rates', {}).get(currency) can be: None when the response
\* has no rate for the currency
LiveRates(currency) ==
    {NONE, ZERO} \cup
    (IF currency = "USD" THEN {Dec(109, 2), Dec(111, 2)}
     ELSE IF currency = "HUF" THEN {Dec(395, 0)}
     ELSE IF currency = "GBP" THEN {Dec(85, 2)}
     ELSE {})

\* a coroutine of _get_fx_rate that has not been called yet
NoLookup ==
    [pc |-> "idle", currency |-> "", target_date |-> NoneStr, cached |-> NONE,
     rate |-> NONE, api |-> FALSE, failed |-> "", exc |-> "", out |-> NONE]

\* the table fx_rates: rows with the UNIQUE(date, currency) constraint
CachedRows(target_date, currency) ==
    {row \in db.fx_rates :
        row.date = target_date /\ row.currency = currency}

\* INSERT OR REPLACE INTO fx_rates (date, currency, rate): the row in
\* conflict is deleted and a row with a fresh id inserted
InsertOrReplace(target_date, currency, rate) ==
    [fx_rates |-> (db.fx_rates \ CachedRows(target_date, currency))
                    \cup {[id |-> db.ids + 1, date |-> target_date,
                           currency |-> currency, rate |-> rate]},
     ids |-> db.ids + 1]

\* the coroutine i returns rate
ReturnRate(i, rate, fields) ==
    req' = [req EXCEPT ![i] =
               [k \in DOMAIN req[i] |->
                   IF k = "pc" THEN "done"
                   ELSE IF k = "out" THEN rate
                   ELSE IF k \in DOMAIN fields THEN fields[k]
                   ELSE req[i][k]]]

\* line 175: return config.FALLBACK_FX_RATES.get(currency, 1.0)
ReturnFallback(i, failed, fields) ==
    ReturnRate(i, FallbackRate(req[i].currency),
               [k \in DOMAIN fields \cup {"failed"} |->
                   IF k = "failed" THEN failed ELSE fields[k]])

\* lines 131-141: the call, up to the first await
FxCall(i, currency, target_date) ==
    /\ req[i].pc = "idle"
    /\ IF currency = "EUR"
       THEN ReturnRate(i, ONE, [currency |-> currency,
                                target_date |-> target_date])
       ELSE req' = [req EXCEPT ![i].pc = "check_cache",
                               ![i].currency = currency,
                               ![i].target_date = TargetDate(target_date)]
    /\ UNCHANGED <<db, fx_log, fx_rest>>

\* lines 143-151: the SELECT on fx_rates; it is in no try block
CheckCache(i) ==
    /\ req[i].pc = "check_cache"
    /\ \/ req' = [req EXCEPT ![i].pc = "done",
                             ![i].failed = "read",
                             ![i].exc = "OperationalError"]
       \/ \E row \in CachedRows(req[i].target_date, req[i].currency) :
             ReturnRate(i, row.rate, [cached |-> row.rate])
       \/ /\ CachedRows(req[i].target_date, req[i].currency) = {}
          /\ req' = [req EXCEPT ![i].pc = "fetch"]
    /\ UNCHANGED <<db, fx_log, fx_rest>>

\* lines 154-161: the request to the rates API and the rate of its response
Fetch(i) ==
    /\ req[i].pc = "fetch"
    /\ \/ /\ ReturnFallback(i, "api", [api |-> TRUE])
          /\ UNCHANGED fx_log
       \/ \E rate \in LiveRates(req[i].currency) :
             /\ fx_log' = Append(fx_log, [currency |-> req[i].currency,
                                          rate |-> rate])
             /\ IF Truthy(rate)
                THEN req' = [req EXCEPT ![i].pc = "cache_rate",
                                        ![i].rate = rate,
                                        ![i].api = TRUE]
                ELSE ReturnFallback(i, "norate", [api |-> TRUE])
    /\ UNCHANGED <<db, fx_rest>>

\* lines 162-169: the INSERT and the commit, inside the try of the request
CacheRate(i) ==
    /\ req[i].pc = "cache_rate"
    /\ \/ /\ ReturnFallback(i, "write", <<>>)
          /\ UNCHANGED db
       \/ /\ db' = InsertOrReplace(req[i].target_date, req[i].currency,
                                   req[i].rate)
          /\ ReturnRate(i, req[i].rate, <<>>)
    /\ UNCHANGED <<fx_log, fx_rest>>

\* the state before any lookup, with n coroutines and the table as given
InitLookups(n, rows) ==
    /\ pc = "fx"
    /\ arg = ""
    /\ result = ""
    /\ amount_str = ""
    /\ amount_out = NONE
    /\ Idle
    /\ db = [fx_rates |-> rows, ids |-> Cardinality(rows)]
    /\ req = [i \in 1..n |-> NoLookup]

FxCurrencies == {"EUR", "USD", "HUF", "GBP"}

FxDates == {NoneStr, "2024-03-15"}

\* the cache as earlier runs can have left it
StoredTables ==
    {{},
     {[id |-> 1, date |-> Today, currency |-> "USD", rate |-> Dec(110, 2)]},
     {[id |-> 1, date |-> "2024-03-15", currency |-> "HUF",
       rate |-> Dec(390, 0)]}}

\* some coroutine takes its next step
Called ==
    \E i \in DOMAIN req, currency \in FxCurrencies, target_date \in FxDates :
        FxCall(i, currency, target_date)

CacheChecked == \E i \in DOMAIN req : CheckCache(i)

Fetched == \E i \in DOMAIN req : Fetch(i)

RateCached == \E i \in DOMAIN req : CacheRate(i)

NextFx == Called \/ CacheChecked \/ Fetched \/ RateCached

\* one lookup over a cache that is empty or holds a rate
InitFx == \E rows \in StoredTables : InitLookups(1, rows)

SpecFx == InitFx /\ [][NextFx]_vars

\* lookups in flight together over an empty cache
InitFxRace == InitLookups(MaxLookups, {})

SpecFxRace == InitFxRace /\ [][NextFx]_vars

\* C24: _get_fx_rate always returns a rate and never raises: 1.0 for EUR;
\* otherwise the cached or the live rate when one is obtainable; and whenever
\* the cache read, the API call or the cache write fails, or the API has no
\* rate for the currency, the configured fallback of the currency (USD 1.08,
\* HUF 400.0), 1.0 for an unknown currency.
C24_AlwaysReturnsARate ==
    \A i \in DOMAIN req :
        req[i].pc = "done"
        => /\ req[i].exc = ""
           /\ req[i].out # NONE
           /\ IF req[i].currency = "EUR" THEN req[i].out = ONE
              ELSE IF req[i].failed # ""
              THEN req[i].out = IF req[i].currency = "USD" THEN Dec(108, 2)
                                ELSE IF req[i].currency = "HUF"
                                THEN Dec(400, 0)
                                ELSE ONE
              ELSE req[i].out \in {req[i].cached, req[i].rate} \ {NONE}

\* C30: for any interleaving of FX lookups for non-EUR currencies, the cache
\* holds at most one rate per (date, currency); a lookup that finds a cached
\* rate returns it without calling the rates API; a fallback rate is never
\* written to the cache; and a lookup that obtained a live rate returns that
\* live rate.
C30_CacheUnderInterleaving ==
    /\ \A r1, r2 \in db.fx_rates :
          (r1.date = r2.date /\ r1.currency = r2.currency) => r1 = r2
    /\ \A i \in DOMAIN req :
          (req[i].pc = "done" /\ req[i].cached # NONE)
          => (req[i].out = req[i].cached /\ ~req[i].api)
    /\ \A row \in db.fx_rates :
          /\ \E k \in 1..Len(fx_log) :
                fx_log[k] = [currency |-> row.currency, rate |-> row.rate]
          /\ \E i \in DOMAIN req :
                /\ req[i].pc = "done"
                /\ req[i].failed = ""
                /\ req[i].target_date = row.date
                /\ req[i].currency = row.currency
                /\ req[i].rate = row.rate
    /\ \A i \in DOMAIN req :
          (req[i].pc = "done" /\ req[i].rate # NONE)
          => req[i].out = req[i].rate

-----------------------------------------------------------------------------
(* app.upload_images                                                       *)

MaxFiles == 2

\* everything but db and req: untouched by the request handlers
app_rest ==
    <<pc, image, text, source, parsed_data, final_results, idx, returned,
      caught, calls, fx_rates, fx_log, amount_str, amount_out, arg, result>>

\* file.content_type: NoneStr for a part sent without a Content-Type header
ContentTypes == {"image/png", "text/plain", NoneStr}

\* what ocr_service.process_image can return for one image
ParsedResults ==
    {<<>>,
     <<[description |-> "Coffee Bar", amount |-> Dec(650, 2)]>>,
     <<[description |-> "Coffee Shop", amount |-> Dec(450, 2)],
       [description |-> "Supermarket", amount |-> Dec(2310, 2)]>>}

\* DraftManager.save_draft: the row INSERTed into drafts, has_error = 0
DraftRow(id, upload_group_id, data) ==
    [id |-> id, upload_group_id |-> upload_group_id, data |-> data,
     has_error |-> 0, error_message |-> NoneStr]

\* the request before its first step: lines 69-70
InitUpload ==
    /\ pc = "app"
    /\ arg = ""
    /\ result = ""
    /\ amount_str = ""
    /\ amount_out = NONE
    /\ Idle
    /\ db = [drafts |-> {}, draft_ids |-> 0]
    /\ \E files \in SeqsUpTo(ContentTypes, MaxFiles) \ {<<>>} :
          req = [pc |-> "for_file", files |-> files, file |-> 1,
                 upload_group_id |-> "uuid4", draft_ids |-> <<>>,
                 parsed_results |-> <<>>, data |-> 1, outcome |-> <<>>,
                 response |-> NONE]

\* the for loop goes on with the next file; what became of this one is noted
Continue(fields, ok, found) ==
    req' = [k \in DOMAIN req |->
               IF k = "pc" THEN "for_file"
               ELSE IF k = "file" THEN req.file + 1
               ELSE IF k = "outcome"
               THEN Append(req.outcome, [ok |-> ok, found |-> found])
               ELSE IF k \in DOMAIN fields THEN fields[k]
               ELSE req[k]]

\* lines 73-75: the test of the content type, outside the try block
NextFile ==
    /\ req.pc = "for_file"
    /\ req.file <= Len(req.files)
    /\ IF req.files[req.file] = NoneStr
       THEN req' = [req EXCEPT !.pc = "failed"]
       ELSE IF Sub(req.files[req.file], 1, 6) # "image/"
       THEN Continue(<<>>, FALSE, 0)
       ELSE req' = [req EXCEPT !.pc = "process"]
    /\ UNCHANGED <<db, app_rest>>

\* lines 77-84: file.read() and process_image; an exception is caught at 92
ProcessFile ==
    /\ req.pc = "process"
    /\ \/ Continue(<<>>, FALSE, 0)
       \/ \E parsed_results \in ParsedResults :
             IF parsed_results = <<>>
             THEN Continue(<<>>, FALSE, 0)
             ELSE req' = [req EXCEPT !.pc = "save",
                                     !.parsed_results = parsed_results,
                                     !.data = 1]
    /\ UNCHANGED <<db, app_rest>>

\* lines 86-90: one save_draft call of the inner loop; an exception is
\* caught at line 92 and the loop over the files goes on
SaveDraft ==
    /\ req.pc = "save"
    /\ \/ /\ Continue(<<>>, FALSE, Len(req.parsed_results))
          /\ UNCHANGED db
       \/ /\ db' = [db EXCEPT
                       !.drafts = @ \cup
                           {DraftRow(db.draft_ids + 1, req.upload_group_id,
                                     req.parsed_results[req.data])},
                       !.draft_ids = @ + 1]
          /\ IF req.data < Len(req.parsed_results)
             THEN req' = [req EXCEPT
                             !.data = @ + 1,
                             !.draft_ids = Append(@, db.draft_ids + 1)]
             ELSE Continue([draft_ids |->
                               Append(req.draft_ids, db.draft_ids + 1)],
                           TRUE, Len(req.parsed_results))
    /\ UNCHANGED app_rest

\* line 95: the response
RespondUpload ==
    /\ req.pc = "for_file"
    /\ req.file > Len(req.files)
    /\ req' = [req EXCEPT
                  !.pc = "responded",
                  !.response = [upload_group_id |-> req.upload_group_id,
                                drafts_created |-> Len(req.draft_ids)]]
    /\ UNCHANGED <<db, app_rest>>

NextUpload == NextFile \/ ProcessFile \/ SaveDraft \/ RespondUpload

SpecUpload == InitUpload /\ [][NextUpload]_vars

RECURSIVE SumFound(_)
\* the candidates of the files that were processed without a failure
SumFound(outcome) ==
    IF outcome = <<>> THEN 0
    ELSE (IF outcome[1].ok THEN outcome[1].found ELSE 0)
            + SumFound(Tail(outcome))

\* C25: in a batch upload a failure or an empty result of one file never
\* prevents the remaining files from being processed and saved and never
\* fails the request: every file is gone through, and drafts_created equals
\* the number of candidates saved for the files that were processed
\* successfully, all under the one upload_group_id.
C25_BatchSurvivesAFailingFile ==
    /\ req.pc # "failed"
    /\ req.pc = "responded"
       => /\ Len(req.outcome) = Len(req.files)
          /\ req.response.drafts_created = SumFound(req.outcome)
          /\ \A row \in db.drafts :
                row.upload_group_id = req.response.upload_group_id

-----------------------------------------------------------------------------
(* app.confirm_draft and app.bulk_confirm_drafts, one await at a time      *)

MaxRequests == 2

\* amount <= 0 is false: the amount is a number above zero
Positive(amount) == Truthy(amount) /\ "neg" \notin DOMAIN amount

\* validators.validate_expense_data: the list of errors, empty when valid
validate_expense_data(expense_data) ==
    (IF expense_data.date = "" THEN <<"Date is required">> ELSE <<>>)
    \o (IF ~Positive(expense_data.amount)
        THEN <<"Amount must be greater than 0">> ELSE <<>>)
    \o (IF Strip(expense_data.description) = ""
        THEN <<"Description is required">> ELSE <<>>)
    \o (IF Strip(expense_data.category) = ""
        THEN <<"Category is required">> ELSE <<>>)
    \o (IF Strip(expense_data.person) = ""
        THEN <<"Person (who paid) is required">> ELSE <<>>)

\* validators.sanitize_form_data: the strings stripped
sanitize_form_data(form_data) ==
    [k \in DOMAIN form_data |->
        IF k = "amount" THEN form_data[k] ELSE Strip(form_data[k])]

ValidData ==
    [date |-> "2025-05-29", amount |-> Dec(450, 2),
     description |-> "Coffee Shop", category |-> "Caffeine",
     person |-> "Kozos"]

\* what a form or a draft can hold
FormData ==
    {ValidData,
     [ValidData EXCEPT !.date = ""],
     [ValidData EXCEPT !.amount = ZERO],
     [ValidData EXCEPT !.amount = [neg |-> ONE]],
     [ValidData EXCEPT !.description = "  "],
     [ValidData EXCEPT !.date = "", !.category = "", !.person = " "]}

\* the drafts table as uploads and auto-saves can have left it
StoredDrafts ==
    {{DraftRow(1, "uuid4", ValidData)},
     {DraftRow(1, "uuid4", ValidData),
      DraftRow(2, "uuid4", [ValidData EXCEPT !.date = ""])},
     {[DraftRow(1, "uuid4", [ValidData EXCEPT !.amount = ZERO])
          EXCEPT !.has_error = 1,
                 !.error_message = "Amount must be greater than 0"]}}

\* the ids a request can name: 3 is the id of no draft
DraftIds == {1, 2, 3}

\* a request that has not arrived yet
NoRequest ==
    [pc |-> "idle", kind |-> "", draft_ids |-> <<>>, at |-> 1,
     expense_data |-> NONE, errors |-> <<>>, expense_id |-> 0,
     success_ids |-> <<>>, error_ids |-> <<>>, response |-> NONE]

\* the draft the request r is working on
DraftId(r) == req[r].draft_ids[req[r].at]

\* SELECT ... FROM drafts WHERE id = ?
DraftsWithId(draft_id) == {row \in db.drafts : row.id = draft_id}

\* the request r is through with its draft: confirm_draft returns, the loop
\* of bulk_confirm_drafts goes on or returns the results
Through(r, ok, fields) ==
    LET last == req[r].at = Len(req[r].draft_ids)
        success_ids == IF ok THEN Append(req[r].success_ids, DraftId(r))
                       ELSE req[r].success_ids
        error_ids == IF ok THEN req[r].error_ids
                     ELSE Append(req[r].error_ids, DraftId(r))
    IN  req' = [req EXCEPT ![r] =
                   [k \in DOMAIN req[r] |->
                       IF k = "pc"
                       THEN IF last THEN "done" ELSE "get_draft"
                       ELSE IF k = "at"
                       THEN IF last THEN req[r].at ELSE req[r].at + 1
                       ELSE IF k = "success_ids" THEN success_ids
                       ELSE IF k = "error_ids" THEN error_ids
                       ELSE IF k = "response"
                       THEN IF ~last THEN NONE
                            ELSE IF req[r].kind = "confirm"
                            THEN [success |-> ok]
                            ELSE [success_count |-> Len(success_ids),
                                  error_count |-> Len(error_ids),
                                  success_ids |-> success_ids,
                                  error_ids |-> error_ids]
                       ELSE IF k \in DOMAIN fields THEN fields[k]
                       ELSE req[r][k]]]

\* the request r goes to position at with the fields given
Goto(r, at, fields) ==
    req' = [req EXCEPT ![r] =
               [k \in DOMAIN req[r] |->
                   IF k = "pc" THEN at
                   ELSE IF k \in DOMAIN fields THEN fields[k]
                   ELSE req[r][k]]]

\* the position after the validation of expense_data
Validated(r, expense_data) ==
    Goto(r, IF validate_expense_data(expense_data) = <<>>
            THEN "clear" ELSE "mark_invalid",
         [expense_data |-> expense_data,
          errors |-> validate_expense_data(expense_data),
          expense_id |-> 0])

\* a manager that raises the flag and drops the message
mark_draft_error_flag_only(draft_id, error_message) ==
    [db EXCEPT !.drafts =
        {IF row.id = draft_id THEN [row EXCEPT !.has_error = 1] ELSE row :
            row \in db.drafts}]

\* UPDATE drafts SET has_error = 1, error_message = ? WHERE id = ?
mark_draft_error(draft_id, error_message) ==
    [db EXCEPT !.drafts =
        {IF row.id = draft_id
         THEN [row EXCEPT !.has_error = 1, !.error_message = error_message]
         ELSE row : row \in db.drafts}]

\* UPDATE drafts SET has_error = 0, error_message = NULL WHERE id = ?
clear_draft_error(draft_id) ==
    [db EXCEPT !.drafts =
        {IF row.id = draft_id
         THEN [row EXCEPT !.has_error = 0, !.error_message = NoneStr]
         ELSE row : row \in db.drafts}]

\* INSERT INTO expenses: the row notes the draft it was made for and whether
\* that draft was in the table at the time
create_expense(draft_id, expense_data) ==
    [db EXCEPT
        !.expenses = @ \cup {[id |-> db.expense_ids + 1,
                              data |-> expense_data,
                              draft |-> draft_id,
                              existed |-> DraftsWithId(draft_id) # {}]},
        !.expense_ids = @ + 1]

\* DELETE FROM drafts WHERE id = ?
delete_draft(draft_id) ==
    [db EXCEPT !.drafts = @ \ DraftsWithId(draft_id)]

\* app.py 149-171: confirm_draft is called; the form is sanitized and
\* validated before the first await
ConfirmDraft(r, draft_id, form) ==
    /\ req[r].pc = "idle"
    /\ req' = [req EXCEPT ![r] =
                  [NoRequest EXCEPT
                      !.kind = "confirm",
                      !.draft_ids = <<draft_id>>,
                      !.expense_data = sanitize_form_data(form),
                      !.errors =
                          validate_expense_data(sanitize_form_data(form)),
                      !.pc = IF validate_expense_data(
                                    sanitize_form_data(form)) = <<>>
                             THEN "clear" ELSE "mark_invalid"]]
    /\ UNCHANGED <<db, app_rest>>

\* app.py 211-224: bulk_confirm_drafts is called
BulkConfirmDrafts(r, draft_ids) ==
    /\ req[r].pc = "idle"
    /\ req' = [req EXCEPT ![r] =
                  [NoRequest EXCEPT !.kind = "bulk",
                                    !.draft_ids = draft_ids,
                                    !.pc = "get_draft"]]
    /\ UNCHANGED <<db, app_rest>>

\* app.py 226-248: get_draft and the validation of what it returned
GetDraft(r) ==
    /\ req[r].pc = "get_draft"
    /\ \/ /\ db.faults
          /\ Goto(r, "mark_system", [expense_id |-> 0])
       \/ /\ DraftsWithId(DraftId(r)) = {}
          /\ Through(r, FALSE, <<>>)
       \/ \E row \in DraftsWithId(DraftId(r)) : Validated(r, row.data)
    /\ UNCHANGED <<db, app_rest>>

\* app.py 173-182 and 250-256: the draft is marked with the joined messages
MarkInvalid(r) ==
    /\ req[r].pc = "mark_invalid"
    /\ \/ /\ db.faults
          /\ Goto(r, "mark_system", <<>>)
          /\ UNCHANGED db
       \/ /\ db' = mark_draft_error(DraftId(r),
                                    JoinWith(req[r].errors, "; "))
          /\ Through(r, FALSE, <<>>)
    /\ UNCHANGED app_rest

\* app.py 185 and 259: clear_draft_error
ClearError(r) ==
    /\ req[r].pc = "clear"
    /\ \/ /\ db.faults
          /\ Goto(r, "mark_system", <<>>)
          /\ UNCHANGED db
       \/ /\ db' = clear_draft_error(DraftId(r))
          /\ Goto(r, "create", <<>>)
    /\ UNCHANGED app_rest

\* app.py 188-191 and 262-265: get_draft_image and create_expense
CreateExpense(r) ==
    /\ req[r].pc = "create"
    /\ \/ /\ db.faults
          /\ Goto(r, "mark_system", <<>>)
          /\ UNCHANGED db
       \/ /\ db' = create_expense(DraftId(r), req[r].expense_data)
          /\ Goto(r, "delete", [expense_id |-> db.expense_ids + 1])
    /\ UNCHANGED app_rest

\* app.py 194-196 and 268-271: delete_draft and the report of success
DeleteDraft(r) ==
    /\ req[r].pc = "delete"
    /\ \/ /\ db.faults
          /\ Goto(r, "mark_system", <<>>)
          /\ UNCHANGED db
       \/ /\ db' = delete_draft(DraftId(r))
          /\ Through(r, TRUE, <<>>)
    /\ UNCHANGED app_rest

\* app.py 198-207 and 273-279: the except block; an exception of its own
\* mark_draft_error leaves the handler
MarkSystemError(r) ==
    /\ req[r].pc = "mark_system"
    /\ \/ /\ Goto(r, "failed", <<>>)
          /\ UNCHANGED db
       \/ /\ db' = mark_draft_error(DraftId(r),
                                    "System error: database is locked")
          /\ Through(r, FALSE, <<>>)
    /\ UNCHANGED app_rest

\* the state before any request, with n requests to come
InitRequests(n, drafts, faults) ==
    /\ pc = "app"
    /\ arg = ""
    /\ result = ""
    /\ amount_str = ""
    /\ amount_out = NONE
    /\ Idle
    /\ db = [drafts |-> drafts, expenses |-> {}, expense_ids |-> 0,
             faults |-> faults]
    /\ req = [r \in 1..n |-> NoRequest]

ConfirmRequested ==
    \E r \in DOMAIN req, draft_id \in DraftIds, form \in FormData :
        ConfirmDraft(r, draft_id, form)

BulkRequested ==
    \E r \in DOMAIN req, draft_ids \in SeqsUpTo(DraftIds, 2) \ {<<>>} :
        BulkConfirmDrafts(r, draft_ids)

DraftRead == \E r \in DOMAIN req : GetDraft(r)

InvalidMarked == \E r \in DOMAIN req : MarkInvalid(r)

ErrorCleared == \E r \in DOMAIN req : ClearError(r)

ExpenseCreated == \E r \in DOMAIN req : CreateExpense(r)

DraftDeleted == \E r \in DOMAIN req : DeleteDraft(r)

SystemErrorMarked == \E r \in DOMAIN req : MarkSystemError(r)

NextConfirm ==
    \/ ConfirmRequested
    \/ BulkRequested
    \/ DraftRead
    \/ InvalidMarked
    \/ ErrorCleared
    \/ ExpenseCreated
    \/ DraftDeleted
    \/ SystemErrorMarked

\* one request at a time, over a database that can fail
InitConfirm ==
    \E drafts \in StoredDrafts, faults \in BOOLEAN :
        InitRequests(1, drafts, faults)

SpecConfirm == InitConfirm /\ [][NextConfirm]_vars

\* the ids of the drafts in the table
StoredIds == {row.id : row \in db.drafts}

\* the request r is handling data that failed validation
HandlesInvalid(r) ==
    /\ req[r].pc \in {"mark_invalid", "mark_system"}
    /\ req[r].errors # <<>>

\* the request r has answered, with a database that did not fail, for a
\* draft whose data failed validation: the draft carries the messages
MarkedWithMessages(r) ==
    (req[r].pc = "done" /\ req[r].errors # <<>> /\ ~db.faults)
    => \A row \in DraftsWithId(DraftId(r)) :
          /\ row.has_error = 1
          /\ row.error_message = JoinWith(req[r].errors, "; ")

\* C27: when the data submitted to confirm_draft, or a draft processed by
\* bulk_confirm_drafts, fails validation (missing date, amount not above 0,
\* empty description, category or person), no expense is created, the draft
\* is not deleted, and the draft is marked has_error = 1 with the joined
\* validation messages; a draft is deleted only after its expense has been
\* created.
C27_InvalidDataKeepsTheDraft ==
    /\ [](\A r \in DOMAIN req : MarkedWithMessages(r))
    /\ [][/\ \A r \in DOMAIN req :
                (HandlesInvalid(r) /\ req'[r] # req[r])
                => /\ db'.expenses = db.expenses
                   /\ StoredIds' = StoredIds
          /\ \A id \in StoredIds \ StoredIds' :
                \E row \in db.expenses : row.draft = id /\ row.data # NONE
         ]_vars

\* confirm_draft has answered for a form without date, category and person:
\* the draft is still there and carries the three messages
C27_Witness ==
    \E r \in DOMAIN req :
        /\ req[r].pc = "done"
        /\ req[r].kind = "confirm"
        /\ req[r].response = [success |-> FALSE]
        /\ db.expenses = {}
        /\ \E row \in DraftsWithId(DraftId(r)) :
              /\ row.has_error = 1
              /\ row.error_message =
                    "Date is required; Category is required; Person (who paid) is required"

\* bulk_confirm_drafts has answered: draft 1 became an expense and is gone,
\* draft 2, without a date, is marked and kept
C27_WitnessBulk ==
    \E r \in DOMAIN req :
        /\ req[r].pc = "done"
        /\ req[r].kind = "bulk"
        /\ req[r].response.success_ids = <<1>>
        /\ req[r].response.error_ids = <<2>>
        /\ \E row \in db.expenses : row.draft = 1
        /\ DraftsWithId(1) = {}
        /\ \E row \in DraftsWithId(2) :
              row.has_error = 1 /\ row.error_message = "Date is required"

\* requests in flight together, for draft 1 and for the id of no draft
ConfirmRaced ==
    \E r \in DOMAIN req, draft_id \in {1, 3},
       form \in {ValidData, [ValidData EXCEPT !.date = ""]} :
        ConfirmDraft(r, draft_id, form)

BulkRaced ==
    \E r \in DOMAIN req, draft_id \in {1, 3} :
        BulkConfirmDrafts(r, <<draft_id>>)

NextConfirmRace ==
    \/ ConfirmRaced
    \/ BulkRaced
    \/ DraftRead
    \/ InvalidMarked
    \/ ErrorCleared
    \/ ExpenseCreated
    \/ DraftDeleted
    \/ SystemErrorMarked

InitConfirmRace ==
    \E faults \in BOOLEAN :
        InitRequests(MaxRequests, {DraftRow(1, "uuid4", ValidData)}, faults)

SpecConfirmRace == InitConfirmRace /\ [][NextConfirmRace]_vars

\* C26: for any sequence or interleaving of confirm_draft and
\* bulk_confirm_drafts requests, an expense is created only for a draft that
\* exists when the request is handled, and each draft results in at most one
\* expense: confirming a draft id that was already confirmed (and deleted),
\* or that never existed, creates no expense and does not report success.
C26_OneExpensePerExistingDraft ==
    /\ \A row \in db.expenses : row.existed
    /\ \A e1, e2 \in db.expenses : e1.draft = e2.draft => e1 = e2
    /\ \A r \in DOMAIN req :
          \A k \in 1..Len(req[r].success_ids) :
              \E row \in db.expenses :
                  /\ row.draft = req[r].success_ids[k]
                  /\ row.id = req[r].expense_id \/ req[r].kind = "bulk"
                  /\ row.existed

-----------------------------------------------------------------------------
(* DatabaseManager.initialize_database: the schema and its migrations.     *)
(* Here db maps the name of every table of the file to the table, and req  *)
(* holds the one startup call.                                             *)

MaxRuns == 2

\* a table: its columns in order, its NOT NULL and its unique columns, its
\* rows (column -> value, NoneStr for NULL) and its sqlite_sequence entry
Table(columns, not_null, unique, rows) ==
    [columns |-> columns, not_null |-> not_null, unique |-> unique,
     rows |-> rows, seq |-> 0]

Cols(columns) == {columns[i] : i \in DOMAIN columns}

\* the row of the given columns that holds values and NULL elsewhere
Row(columns, values) ==
    [k \in Cols(columns) |->
        IF k \in DOMAIN values THEN values[k] ELSE NoneStr]

\* aiosqlite.connect: the connection sees the tables of the file, has no
\* transaction open and no exception under way
get_connection(tables) ==
    [tables |-> tables, saved |-> <<>>, in_transaction |-> FALSE,
     raised |-> ""]

Raise(c, e) == [c EXCEPT !.raised = e]

\* the next statement runs unless an exception is under way
Then(c, F(_)) == IF c.raised # "" THEN c ELSE F(c)

\* sqlite3 opens a transaction before an INSERT or REPLACE that compiled, and
\* before no other statement: CREATE, DROP and ALTER outside a transaction
\* are committed at once
Begin(c) ==
    IF c.in_transaction THEN c
    ELSE [c EXCEPT !.in_transaction = TRUE, !.saved = c.tables]

rollback(c) ==
    IF c.in_transaction
    THEN [c EXCEPT !.tables = c.saved, !.saved = <<>>,
                   !.in_transaction = FALSE]
    ELSE c

commit(c) == [c EXCEPT !.saved = <<>>, !.in_transaction = FALSE]

Put(c, name, t) ==
    [c EXCEPT !.tables =
        [n \in DOMAIN c.tables \cup {name} |->
            IF n = name THEN t ELSE c.tables[n]]]

DropTableIfExists(c, name) ==
    [c EXCEPT !.tables = [n \in DOMAIN c.tables \ {name} |-> c.tables[n]]]

DropTable(c, name) ==
    IF name \notin DOMAIN c.tables
    THEN Raise(c, "OperationalError: no such table: " \o name)
    ELSE DropTableIfExists(c, name)

CreateTable(c, name, t) ==
    IF name \in DOMAIN c.tables
    THEN Raise(c, "OperationalError: table " \o name \o " already exists")
    ELSE Put(c, name, t)

CreateTableIfNotExists(c, name, t) ==
    IF name \in DOMAIN c.tables THEN c ELSE Put(c, name, t)

RenameTable(c, old, new) ==
    IF old \notin DOMAIN c.tables
    THEN Raise(c, "OperationalError: no such table: " \o old)
    ELSE IF new \in DOMAIN c.tables
    THEN Raise(c, "OperationalError: there is already another table: "
                  \o new)
    ELSE Put(DropTableIfExists(c, old), new, c.tables[old])

\* ALTER TABLE name ADD COLUMN column DEFAULT default: every row gets the
\* default in the new column
AddColumn(c, name, column, default) ==
    IF name \notin DOMAIN c.tables
    THEN Raise(c, "OperationalError: no such table: " \o name)
    ELSE IF column \in Cols(c.tables[name].columns)
    THEN Raise(c, "OperationalError: duplicate column name: " \o column)
    ELSE Put(c, name,
             [c.tables[name] EXCEPT
                !.columns = Append(@, column),
                !.rows = {[k \in DOMAIN row \cup {column} |->
                              IF k = column THEN default ELSE row[k]] :
                          row \in @}])

\* PRAGMA table_info(name): the columns, none for a table that is missing
table_info(c, name) ==
    IF name \in DOMAIN c.tables THEN Cols(c.tables[name].columns) ELSE {}

\* the rows of t that hold the value of row in a unique column
Conflicts(t, row) ==
    {old \in t.rows : \E k \in t.unique : old[k] = row[k]}

Max(S) == CHOOSE i \in S : \A j \in S : j <= i

\* the id an AUTOINCREMENT column gives the next row
NextId(t) ==
    1 + Max({t.seq} \cup {row.id : row \in t.rows})

\* INSERT [OR REPLACE | OR IGNORE] INTO name: row holds a value for every
\* column of the table. The transaction opens before the constraints are
\* looked at, and a failing statement leaves it open.
InsertInto(c, name, row, on_conflict) ==
    IF name \notin DOMAIN c.tables
    THEN Raise(c, "OperationalError: no such table: " \o name)
    ELSE Let(Begin(c), LAMBDA b :
         Let(b.tables[name], LAMBDA t :
            IF \E k \in t.not_null : row[k] = NoneStr
            THEN Raise(b, "IntegrityError: NOT NULL constraint failed")
            ELSE IF Conflicts(t, row) # {} /\ on_conflict = "IGNORE"
            THEN b
            ELSE IF Conflicts(t, row) # {} /\ on_conflict = "ABORT"
            THEN Raise(b, "IntegrityError: UNIQUE constraint failed")
            ELSE Put(b, name,
                     [t EXCEPT
                        !.rows = (@ \ Conflicts(t, row)) \cup {row},
                        !.seq = IF "id" \in DOMAIN row
                                THEN Max({@, row.id}) ELSE @])))

CURRENT_TIMESTAMP == Today \o " 12:00:00"

schema_version_columns == <<"version", "applied_at">>

_setup_schema_versioning(c) ==
    CreateTableIfNotExists(c, "schema_version",
        Table(schema_version_columns, {}, {"version"}, {}))

\* SELECT MAX(version) FROM schema_version, 0 for an empty table
_get_current_schema_version(c) ==
    Max({0} \cup {row.version : row \in c.tables["schema_version"].rows})

InsertVersion(c, version, on_conflict) ==
    InsertInto(c, "schema_version",
               [version |-> version, applied_at |-> CURRENT_TIMESTAMP],
               on_conflict)

\* CREATE TABLE expenses_backup_v1 AS SELECT * FROM expenses: the columns
\* and the rows, none of the constraints
_create_backup_table(c) ==
    Let(DropTableIfExists(c, "expenses_backup_v1"), LAMBDA d :
        IF "expenses" \in DOMAIN d.tables
        THEN CreateTable(d, "expenses_backup_v1",
                 Table(d.tables["expenses"].columns, {}, {},
                       d.tables["expenses"].rows))
        ELSE d)

expenses_columns ==
    <<"id", "date", "amount", "currency", "fx_rate", "amount_eur",
      "description", "category", "person", "beneficiary", "image_data",
      "image_filename", "created_at", "created_on", "modified_on">>

expenses_not_null ==
    {"date", "amount", "currency", "fx_rate", "amount_eur", "description",
     "category", "person"}

expenses_table == Table(expenses_columns, expenses_not_null, {"id"}, {})

_create_expenses_table_v1(c) ==
    CreateTableIfNotExists(c, "expenses_new", expenses_table)

\* datetime.now().isoformat()
current_timestamp == Today \o "T12:00:00"

base_columns ==
    <<"id", "date", "amount", "currency", "fx_rate", "amount_eur",
      "description", "category", "person", "beneficiary", "image_data",
      "image_filename", "created_at">>

\* the columns the COALESCE branches of the loop name
coalesced ==
    {"amount_eur", "fx_rate", "description", "category", "person",
     "beneficiary", "image_filename"}

\* select_parts: for each part the column it reads, "" for a literal. A base
\* column the old table lacks is read all the same when it is one of the
\* COALESCE branches, is a literal when it is created_at, and gets no part
\* otherwise; the two audit parts read created_at.
RECURSIVE select_parts(_, _)
select_parts(old_columns, i) ==
    IF i > Len(base_columns) THEN <<"created_at", "created_at">>
    ELSE Let(base_columns[i], LAMBDA col :
            (IF col \in old_columns \/ col \in coalesced THEN <<col>>
             ELSE IF col = "created_at" THEN <<"">>
             ELSE <<>>) \o select_parts(old_columns, i + 1))

\* the row of expenses_new the SELECT makes of a row of expenses
MigratedRow(parts, row) ==
    [k \in Cols(expenses_columns) |->
        Let(CHOOSE i \in DOMAIN expenses_columns : expenses_columns[i] = k,
            LAMBDA i :
              IF i > Len(base_columns)
              THEN IF row[parts[i]] = NoneStr
                   THEN current_timestamp ELSE row[parts[i]]
              ELSE row[parts[i]])]

RECURSIVE InsertAll(_, _, _)
InsertAll(c, name, rows) ==
    IF rows = {} \/ c.raised # "" THEN c
    ELSE Let(CHOOSE row \in rows : \A other \in rows : row.id <= other.id,
             LAMBDA row :
                InsertAll(InsertInto(c, name, row, "ABORT"), name,
                          rows \ {row}))

\* INSERT INTO expenses_new SELECT ... FROM expenses: the statement does not
\* compile when a part reads a column expenses lacks or the parts are not as
\* many as the columns of expenses_new
_perform_data_migration(c) ==
    Let(table_info(c, "expenses"), LAMBDA old_columns :
    Let(select_parts(old_columns, 1), LAMBDA parts :
        IF \E i \in DOMAIN parts :
              parts[i] # "" /\ parts[i] \notin old_columns
        THEN Raise(c, "OperationalError: no such column")
        ELSE IF Len(parts) # Len(c.tables["expenses_new"].columns)
        THEN Raise(c, "OperationalError: table expenses_new has 15 columns")
        ELSE InsertAll(Begin(c), "expenses_new",
                       {MigratedRow(parts, row) :
                            row \in c.tables["expenses"].rows})))

_create_fresh_expenses_table(c) ==
    CreateTable(DropTableIfExists(c, "expenses_new"), "expenses",
                expenses_table)

\* the try block, and the except block that makes a fresh table of any error
_migrate_existing_expense_data(c) ==
    Let(Then(IF "expenses" \in DOMAIN c.tables
             THEN Then(_perform_data_migration(c),
                       LAMBDA x : DropTable(x, "expenses"))
             ELSE c,
             LAMBDA x : RenameTable(x, "expenses_new", "expenses")),
        LAMBDA tried :
            IF tried.raised # ""
            THEN _create_fresh_expenses_table(Raise(tried, ""))
            ELSE tried)

audit_log_columns ==
    <<"id", "expense_id", "operation", "old_values", "new_values", "changes",
      "audit_timestamp", "user_info">>

_create_audit_log_table(c) ==
    CreateTableIfNotExists(c, "expense_audit_log",
        Table(audit_log_columns, {"expense_id", "operation"}, {"id"}, {}))

\* an exception of any step rolls the open transaction back and goes on up
_migrate_to_version_1(c) ==
    Let(Then(Then(Then(Then(_create_backup_table(c),
                            _create_expenses_table_v1),
                       _migrate_existing_expense_data),
                  _create_audit_log_table),
             LAMBDA x : InsertVersion(x, 1, "ABORT")),
        LAMBDA done : IF done.raised # "" THEN rollback(done) ELSE done)

\* the three columns of the error state, each added when table_info does not
\* list it
_migrate_to_version_2(c) ==
    Let(table_info(c, "drafts"), LAMBDA columns :
    Let(Then(Then(Then(IF "has_error" \notin columns
                       THEN AddColumn(c, "drafts", "has_error", 0)
                       ELSE c,
                       LAMBDA x :
                         IF "error_message" \notin columns
                         THEN AddColumn(x, "drafts", "error_message",
                                        NoneStr)
                         ELSE x),
                  LAMBDA x :
                    IF "last_error_at" \notin columns
                    THEN AddColumn(x, "drafts", "last_error_at", NoneStr)
                    ELSE x),
             LAMBDA x : InsertVersion(x, 2, "REPLACE")),
        LAMBDA done : IF done.raised # "" THEN rollback(done) ELSE done))

drafts_columns ==
    <<"id", "upload_group_id", "date", "amount", "currency", "fx_rate",
      "amount_eur", "description", "category", "person", "beneficiary",
      "date_warning", "image_data", "image_filename", "has_error",
      "error_message", "last_error_at", "created_on">>

categories_columns == <<"id", "name">>

fx_rates_columns == <<"id", "date", "currency", "rate">>

_create_supporting_tables(c) ==
    Then(Then(CreateTableIfNotExists(c, "drafts",
                  Table(drafts_columns, {"upload_group_id"}, {"id"}, {})),
              LAMBDA x :
                CreateTableIfNotExists(x, "categories",
                    Table(categories_columns, {"name"}, {"id", "name"},
                          {}))),
         LAMBDA x :
            CreateTableIfNotExists(x, "fx_rates",
                Table(fx_rates_columns, {"date", "currency", "rate"},
                      {"id"}, {})))

default_categories ==
    <<"Other", "Caffeine", "Household", "Car", "Snacks", "Office Lunch",
      "Brunch", "Clothing", "Dog", "Eating Out", "Groceries", "Restaurants">>

\* INSERT OR IGNORE INTO categories (name) VALUES (?), one default at a time
RECURSIVE _insert_default_categories(_, _)
_insert_default_categories(c, i) ==
    IF i > Len(default_categories) \/ c.raised # "" THEN c
    ELSE _insert_default_categories(
             IF "categories" \in DOMAIN c.tables
             THEN InsertInto(c, "categories",
                             [id |-> NextId(c.tables["categories"]),
                              name |-> default_categories[i]], "IGNORE")
             ELSE Raise(c, "OperationalError: no such table: categories"),
             i + 1)

Migrate(c, current_version) ==
    IF current_version < 2
    THEN IF current_version < 1
         THEN Then(_migrate_to_version_1(c), _migrate_to_version_2)
         ELSE _migrate_to_version_2(c)
    ELSE c

\* the whole call on the file that holds tables: the connection as the
\* context manager leaves it, rolled back when an exception went through
initialize_database(tables) ==
    Let(_setup_schema_versioning(get_connection(tables)), LAMBDA c :
    Let(Then(Then(Then(Migrate(c, _get_current_schema_version(c)),
                       _create_supporting_tables),
                  LAMBDA x : _insert_default_categories(x, 1)),
             commit),
        LAMBDA done : rollback(done)))

\* the application starts: the startup handler runs initialize_database; the
\* call notes the file it found and how it ended
InitializeDatabase ==
    /\ pc = "startup"
    /\ req[1].runs < MaxRuns
    /\ Let(initialize_database(db), LAMBDA done :
          /\ db' = done.tables
          /\ req' = [req EXCEPT ![1] = [runs |-> @.runs + 1,
                                        before |-> db,
                                        raised |-> done.raised]])
    /\ UNCHANGED app_rest

\* an expenses row of an installation older than the audit columns
OldExpense(columns, values) ==
    Row(columns, [id |-> 1, date |-> "2025-01-01", amount |-> "5.0"] @@ values)

FullValues ==
    [currency |-> "EUR", fx_rate |-> "1.0", amount_eur |-> "5.0",
     description |-> "Lunch", category |-> "Other", person |-> "Kozos"]

\* an expenses row as create_expense stores it
AuditedExpense(id) ==
    [OldExpense(expenses_columns,
                FullValues @@ [created_at |-> "2025-01-01 10:00:00",
                               created_on |-> "2025-01-01 10:00:00",
                               modified_on |-> "2025-01-02 09:00:00"])
        EXCEPT !.id = id]

\* the expenses table as an installation can hold it: missing, of the first
\* versions (few columns, or the thirteen base columns with or without
\* values in all of them), or of version 1 and later
StoredExpenses ==
    [none |-> {},
     short |-> {Table(<<"id", "date", "amount", "currency">>, {}, {"id"},
                      {OldExpense(<<"id", "date", "amount", "currency">>,
                                  [currency |-> "EUR"])})},
     base |-> {Table(base_columns, {}, {"id"}, rows) :
                 rows \in {{}, {OldExpense(base_columns, FullValues)},
                           {OldExpense(base_columns, <<>>)}}},
     audited |-> {[Table(expenses_columns, expenses_not_null, {"id"}, rows)
                      EXCEPT !.seq = Cardinality(rows)] :
                    rows \in {{}, {AuditedExpense(1)},
                              {AuditedExpense(1), AuditedExpense(2)}}}]

DraftValues == [id |-> 1, upload_group_id |-> "g1", amount |-> "5.0"]

\* the drafts table: missing, without the error columns, or with them
StoredDraftTables ==
    [none |-> {},
     plain |-> Let(SubSeq(drafts_columns, 1, 14) \o <<"created_on">>,
                   LAMBDA columns :
                     {[Table(columns, {"upload_group_id"}, {"id"}, rows)
                          EXCEPT !.seq = Cardinality(rows)] :
                        rows \in {{}, {Row(columns, DraftValues)}}}),
     errors |-> {[Table(drafts_columns, {"upload_group_id"}, {"id"}, rows)
                     EXCEPT !.seq = Cardinality(rows)] :
                   rows \in {{}, {Row(drafts_columns, DraftValues @@
                                      [has_error |-> 1,
                                       error_message |-> "Amount must be greater than 0",
                                       last_error_at |-> "2025-01-03T08:00:00"])}}}]

\* the tables of version 2 as earlier runs and the handlers leave them
StoredCategories ==
    {[Table(categories_columns, {"name"}, {"id", "name"},
            {[id |-> i, name |-> names[i]] : i \in DOMAIN names})
         EXCEPT !.seq = Len(names)] :
       names \in {default_categories, default_categories \o <<"Travel">>}}

StoredRates ==
    {Table(fx_rates_columns, {"date", "currency", "rate"}, {"id"}, rows) :
        rows \in {{}, {[id |-> 1, date |-> "2025-01-01", currency |-> "USD",
                        rate |-> "1.1"]}}}

StoredVersions(versions) ==
    Table(schema_version_columns, {}, {"version"},
          {[version |-> v, applied_at |-> "2025-01-01 10:00:00"] :
              v \in versions})

\* the tables of tables under their names, t standing for an optional table
\* as the set of at most one table
Named(name, t) == [n \in {name} |-> t]

\* the files the application can start on: a fresh empty file, the file of an
\* installation older than schema_version, the file of version 1, and the
\* file an earlier run initialised
StoredFiles ==
    {<<>>}
    \cup {Named("expenses", e) @@ d :
            e \in StoredExpenses.short \cup StoredExpenses.base,
            d \in {<<>>} \cup {Named("drafts", t) :
                                  t \in StoredDraftTables.plain}}
    \cup {Named("schema_version", StoredVersions({1}))
          @@ Named("expenses", e)
          @@ Named("expense_audit_log",
                   Table(audit_log_columns, {"expense_id", "operation"},
                         {"id"}, {}))
          @@ d :
            e \in StoredExpenses.audited,
            d \in {<<>>} \cup {Named("drafts", t) :
                                  t \in StoredDraftTables.plain}}
    \cup {Named("schema_version", StoredVersions({1, 2}))
          @@ Named("expenses", e)
          @@ Named("expense_audit_log",
                   Table(audit_log_columns, {"expense_id", "operation"},
                         {"id"}, {}))
          @@ Named("drafts", d)
          @@ Named("categories", k)
          @@ Named("fx_rates", f) :
            e \in StoredExpenses.audited, d \in StoredDraftTables.errors,
            k \in StoredCategories, f \in StoredRates}

InitSchema ==
    /\ pc = "startup"
    /\ arg = ""
    /\ result = ""
    /\ amount_str = ""
    /\ amount_out = NONE
    /\ Idle
    /\ db \in StoredFiles
    /\ req = <<[runs |-> 0, before |-> <<>>, raised |-> ""]>>

NextSchema == InitializeDatabase

SpecSchema == InitSchema /\ [][NextSchema]_vars

\* the tables of a file that initialize_database has brought to version 2
SchemaTables ==
    {"expenses", "drafts", "categories", "fx_rates", "expense_audit_log"}

Initialised(tables) ==
    /\ SchemaTables \cup {"schema_version"} \subseteq DOMAIN tables
    /\ \E row \in tables["schema_version"].rows : row.version = 2

\* C28: initialize_database is safe on any database state, a fresh empty file
\* included, and any number of times: every run ends without an exception
\* and leaves schema version 2 with the tables expenses, drafts, categories,
\* fx_rates and expense_audit_log, and a run on a file that is initialised
\* already changes no row that was there.
C28_SafeOnAnyDatabase ==
    (pc = "startup" /\ req[1].runs > 0) =>
        /\ req[1].raised = ""
        /\ Initialised(db)
        /\ Initialised(req[1].before) =>
              \A name \in DOMAIN req[1].before :
                  /\ name \in DOMAIN db
                  /\ req[1].before[name].rows \subseteq db[name].rows

=============================================================================
